---- MODULE Spec2Model ----
(***************************************************************************)
(* A model of ra-bridge: the RA2 (GNET) <-> LEAP / Savant bridge.          *)
(*                                                                         *)
(* The module holds several specifications over one set of variables;     *)
(* each moves one group of variables and leaves the others at rest.       *)
(*   Spec        one run of bridge::start: RA2 command queue, routing     *)
(*               loop, backend request queues, client tasks, shutdown.    *)
(*               FairSpec adds the fairness of the tokio scheduler.       *)
(*   SpecClient  one backend client task: run / connect_and_run with its  *)
(*               reconnect backoff; FairSpecClient adds fairness.         *)
(*   SpecLife    the bridges started and stopped over the life of the     *)
(*               process by the web handlers and site activation.         *)
(*   SpecConfig  the configuration file, the live configuration and the   *)
(*               handlers that load, update and save them.                *)
(*   SpecTelnet  the telnet server: login, command lines, the RA2 event   *)
(*               broadcast channel, its forwarders and its subscribers.   *)
(*   SpecForward the event forwarders of bridge::start and of bridge::run *)
(*               with the subscribers of the broadcast channel.           *)
(*   SpecLines   the command loops of the telnet connections, with reads  *)
(*               that fail.                                               *)
(*   SpecPure    the pure functions: translators, load key, RA2 lines.    *)
(*   SpecPair    pairing runs over one certificate directory.             *)
(*   SpecInbound the read arm of a client's select loop in detail.        *)
(*   SpecReload  a configuration update under a running bridge.           *)
(*   SpecDrop    Spec with a LEAP client task that panics and drops its   *)
(*               request queue receiver.                                   *)
(*   SpecShared  Spec with one zone on each backend; FairSpecShared adds  *)
(*               the fairness of the scheduler.                           *)
(*   SpecBlocking the blocking loop of bridge::run with the RA2 listener  *)
(*               task and its connections.                                *)
(***************************************************************************)
EXTENDS Integers, Sequences, FiniteSets, TLC

\* Option<T>: None, or Some(x).
None == <<>>

Some(x) == <<x>>

IsSome(o) == o # <<>>

Unwrap(o) == o[1]

Min(a, b) == IF a <= b THEN a ELSE b

EmptyMap == [x \in {} |-> 0]

\* HashMap::insert: a later insert of the same key overwrites.
MapInsert(m, k, v) == [x \in (DOMAIN m) \cup {k} |-> IF x = k THEN v ELSE m[x]]

RECURSIVE SetToSeq(_)
\* The ids of a set as an ascending list.
SetToSeq(S) ==
  IF S = {} THEN <<>>
  ELSE LET m == CHOOSE x \in S : \A y \in S : x <= y
       IN <<m>> \o SetToSeq(S \ {m})

(***************************************************************************)
(* Numbers as text (str::parse::<u32>, str::parse::<f64>, format!).  A     *)
(* text is a sequence of one-character strings.  An f64 is NaN, an         *)
(* infinity, or the decimal mant / 10^scale with its sign, without         *)
(* trailing zeros in the fraction.                                         *)
(***************************************************************************)
DecDigits == <<"0", "1", "2", "3", "4", "5", "6", "7", "8", "9">>

IsDecDigit(ch) == \E i \in 1..Len(DecDigits) : DecDigits[i] = ch

DecValue(ch) == (CHOOSE i \in 1..Len(DecDigits) : DecDigits[i] = ch) - 1

AllDigits(text) == \A i \in 1..Len(text) : IsDecDigit(text[i])

RECURSIVE DigitsValue(_)
DigitsValue(text) ==
  IF text = <<>> THEN 0
  ELSE 10 * DigitsValue(SubSeq(text, 1, Len(text) - 1)) + DecValue(text[Len(text)])

RECURSIVE Pow10(_)
Pow10(n) == IF n = 0 THEN 1 ELSE 10 * Pow10(n - 1)

\* str::parse::<u32>: one leading "+" is accepted, then one digit at least and
\* digits only.  (The overflow error needs ten digits; the texts of the model
\* are shorter.)
parse_u32(text) ==
  LET digits == IF text # <<>> /\ Head(text) = "+" THEN Tail(text) ELSE text IN
  IF digits = <<>> \/ ~AllDigits(digits) THEN None ELSE Some(DigitsValue(digits))

\* format!("{}", n) of an unsigned integer.
RECURSIVE FormatDec(_)
FormatDec(n) ==
  IF n < 10 THEN <<DecDigits[n + 1]>>
  ELSE FormatDec(n \div 10) \o <<DecDigits[(n % 10) + 1]>>

Finite(neg, mant, scale) ==
  [class |-> "finite", neg |-> neg, mant |-> mant, scale |-> scale]

Infinite(neg) == [class |-> "inf", neg |-> neg, mant |-> 0, scale |-> 0]

NaN == [class |-> "nan", neg |-> FALSE, mant |-> 0, scale |-> 0]

\* The f64 of the decimal mant / 10^scale, trailing zeros of the fraction
\* dropped: one value has one representation.
RECURSIVE Normal(_, _, _)
Normal(neg, mant, scale) ==
  IF scale > 0 /\ mant % 10 = 0 THEN Normal(neg, mant \div 10, scale - 1)
  ELSE Finite(neg, mant, scale)

\* The f64 of a whole number.
Whole(n) == Finite(FALSE, n, 0)

\* The letters of "inf", "infinity" and "nan" in lower case.
to_ascii_lowercase(ch) ==
  CASE ch = "I" -> "i" [] ch = "N" -> "n" [] ch = "F" -> "f"
    [] ch = "A" -> "a" [] ch = "T" -> "t" [] ch = "Y" -> "y"
    [] OTHER -> ch

\* str::parse::<f64>: an optional sign; then "inf", "infinity" or "nan" in any
\* case, or digits with at most one "." and one digit at least before or
\* after it.  (Exponents are not among the texts of the model.)
parse_f64(text) ==
  LET signed == text # <<>> /\ Head(text) \in {"+", "-"}
      neg    == signed /\ Head(text) = "-"
      body   == IF signed THEN Tail(text) ELSE text
      word   == [i \in 1..Len(body) |-> to_ascii_lowercase(body[i])]
      dot    == IF \E i \in 1..Len(body) : body[i] = "."
                THEN CHOOSE i \in 1..Len(body) :
                       body[i] = "." /\ \A j \in 1..(i - 1) : body[j] # "."
                ELSE Len(body) + 1
      int    == SubSeq(body, 1, dot - 1)
      frac   == SubSeq(body, dot + 1, Len(body))
  IN IF word \in {<<"i", "n", "f">>, <<"i", "n", "f", "i", "n", "i", "t", "y">>}
     THEN Some(Infinite(neg))
     ELSE IF word = <<"n", "a", "n">> THEN Some(NaN)
     ELSE IF ~AllDigits(int) \/ ~AllDigits(frac) \/ Len(int) + Len(frac) = 0
     THEN None
     ELSE Some(Normal(neg, DigitsValue(int \o frac), Len(frac)))

\* The hundredths of a finite value with the further digits cut off.
Hundredths_Truncated(v) ==
  IF v.scale <= 2 THEN v.mant * Pow10(2 - v.scale)
  ELSE v.mant \div Pow10(v.scale - 2)

\* The number of hundredths nearest to a finite value.  (A value half way
\* between two hundredths goes by the binary digits of the f64; a decimal
\* without the digit 5 is never half way.)
Hundredths(v) ==
  IF v.scale <= 2 THEN v.mant * Pow10(2 - v.scale)
  ELSE LET unit == Pow10(v.scale - 2) IN
       (v.mant \div unit) + (IF 2 * (v.mant % unit) > unit THEN 1 ELSE 0)

\* format!("{:.2}", v)
format_2(v) ==
  CASE v.class = "nan" -> <<"N", "a", "N">>
    [] v.class = "inf" -> (IF v.neg THEN <<"-">> ELSE <<>>) \o <<"i", "n", "f">>
    [] OTHER ->
         LET h == Hundredths(v) IN
         (IF v.neg THEN <<"-">> ELSE <<>>) \o FormatDec(h \div 100) \o <<".">>
           \o <<DecDigits[((h \div 10) % 10) + 1], DecDigits[(h % 10) + 1]>>

(***************************************************************************)
(* Bounds                                                                  *)
(***************************************************************************)
\* Zone ids 1..MaxZone appear in configurations, commands and events.
MaxZone == 1
\* Capacity of the bounded mpsc queues (256 in the source).
QueueCap == 1

ZoneIds == 1..MaxZone

\* An id no configuration maps: a telnet client may name any integration id.
UnknownId == MaxZone + 1

CommandIds == ZoneIds \cup {UnknownId}

(***************************************************************************)
(* Configuration (config.rs)                                               *)
(***************************************************************************)
\* ZoneMapping { ra2_id, leap_href }: zone i of the processor is "/zone/<4+i>".
ZoneMappingOf(i) == [ra2_id |-> i, leap_href |-> 4 + i]

\* SavantZoneMapping { ra2_id, address, load_offset }.
SavantZoneMappingOf(i) == [ra2_id |-> i, address |-> 1, load_offset |-> i - 1]

\* Vec<ZoneMapping> and Vec<SavantZoneMapping> built from a list of ids.
ZoneList(ids) == [i \in 1..Len(ids) |-> ZoneMappingOf(ids[i])]

SavantZoneList(ids) == [i \in 1..Len(ids) |-> SavantZoneMappingOf(ids[i])]

\* The configurations a configuration file can hold: Config::load does not
\* validate, so the two zone lists may share an id.
Configs ==
  { [zones        |-> ZoneList(SetToSeq(L)),
     savant       |-> s,
     savant_zones |-> SavantZoneList(SetToSeq(S))] :
      L \in SUBSET ZoneIds, s \in BOOLEAN, S \in SUBSET ZoneIds }

has_leap(cfg) == cfg.zones # <<>>

has_savant(cfg) == cfg.savant /\ cfg.savant_zones # <<>>

(***************************************************************************)
(* Identifier maps (id_map.rs, savant_id_map.rs)                           *)
(***************************************************************************)
RECURSIVE IdMap_from_zones(_)
IdMap_from_zones(zones) ==
  IF zones = <<>> THEN [ra2_to_leap |-> EmptyMap, leap_to_ra2 |-> EmptyMap]
  ELSE LET n    == Len(zones)
           prev == IdMap_from_zones(SubSeq(zones, 1, n - 1))
           z    == zones[n]
       IN [ra2_to_leap |-> MapInsert(prev.ra2_to_leap, z.ra2_id, z.leap_href),
           leap_to_ra2 |-> MapInsert(prev.leap_to_ra2, z.leap_href, z.ra2_id)]

IdMap_ra2_to_leap(map, id) ==
  IF id \in DOMAIN map.ra2_to_leap THEN Some(map.ra2_to_leap[id]) ELSE None

IdMap_leap_to_ra2(map, href) ==
  IF href \in DOMAIN map.leap_to_ra2 THEN Some(map.leap_to_ra2[href]) ELSE None

RECURSIVE SavantIdMap_from_zones(_)
SavantIdMap_from_zones(zones) ==
  IF zones = <<>> THEN [ra2_to_savant |-> EmptyMap, savant_to_ra2 |-> EmptyMap]
  ELSE LET n    == Len(zones)
           prev == SavantIdMap_from_zones(SubSeq(zones, 1, n - 1))
           z    == zones[n]
       IN [ra2_to_savant |->
             MapInsert(prev.ra2_to_savant, z.ra2_id, <<z.address, z.load_offset>>),
           savant_to_ra2 |->
             MapInsert(prev.savant_to_ra2, <<z.address, z.load_offset>>, z.ra2_id)]

SavantIdMap_ra2_to_savant(map, id) ==
  IF id \in DOMAIN map.ra2_to_savant THEN Some(map.ra2_to_savant[id]) ELSE None

SavantIdMap_savant_to_ra2(map, address, load_offset) ==
  IF <<address, load_offset>> \in DOMAIN map.savant_to_ra2
  THEN Some(map.savant_to_ra2[<<address, load_offset>>]) ELSE None

(***************************************************************************)
(* RA2 commands and events (ra2_protocol.rs)                               *)
(***************************************************************************)
SetOutput(id, level, fade) == [kind |-> "SetOutput", id |-> id, level |-> level, fade |-> fade]

QueryOutput(id) == [kind |-> "QueryOutput", id |-> id]

Monitoring(mon_type, enable) == [kind |-> "Monitoring", mon_type |-> mon_type, enable |-> enable]

OutputLevel(id, level) == [kind |-> "OutputLevel", id |-> id, level |-> level]

\* Levels carried by commands and by backend reports.
Levels == {Whole(100)}

\* The commands a telnet client submits.
Ra2Commands ==
  { SetOutput(i, l, None) : i \in CommandIds, l \in Levels } \cup
  { QueryOutput(i) : i \in CommandIds } \cup
  { Monitoring(5, TRUE) }

(***************************************************************************)
(* Translators (translator.rs, savant_translator.rs)                       *)
(***************************************************************************)
\* format!("{:02}:{:02}:{:02}", t / 3600, (t % 3600) / 60, t % 60)
FadeStr(t) == <<t \div 3600, (t % 3600) \div 60, t % 60>>

ra2_to_leap(cmd, map) ==
  CASE cmd.kind = "SetOutput" ->
         LET href == IdMap_ra2_to_leap(map, cmd.id) IN
         IF href = None THEN None
         ELSE Some([communique_type |-> "CreateRequest",
                    url  |-> <<Unwrap(href), "commandprocessor">>,
                    body |-> IF IsSome(cmd.fade)
                             THEN [CommandType |-> "GoToDimmedLevel",
                                   Level |-> cmd.level,
                                   FadeTime |-> FadeStr(Unwrap(cmd.fade))]
                             ELSE [CommandType |-> "GoToLevel",
                                   Level |-> cmd.level]])
    [] cmd.kind = "QueryOutput" ->
         LET href == IdMap_ra2_to_leap(map, cmd.id) IN
         IF href = None THEN None
         ELSE Some([communique_type |-> "ReadRequest",
                    url  |-> <<Unwrap(href), "status">>])
    [] OTHER -> None

\* A LEAP event is modelled by the zone href it reports and the ZoneStatus
\* level of its body (None for a body without ZoneStatus.Level).
leap_to_ra2(event, map) ==
  IF event.level = None THEN None
  ELSE LET ra2_id == IdMap_leap_to_ra2(map, event.href) IN
       IF ra2_id = None THEN None
       ELSE Some(OutputLevel(Unwrap(ra2_id), Unwrap(event.level)))

ra2_to_savant(cmd, map) ==
  CASE cmd.kind = "SetOutput" ->
         LET t == SavantIdMap_ra2_to_savant(map, cmd.id) IN
         IF t = None THEN None
         ELSE Some([kind |-> "SetLoad", address |-> Unwrap(t)[1],
                    load_offset |-> Unwrap(t)[2], level |-> cmd.level])
    [] cmd.kind = "QueryOutput" ->
         LET t == SavantIdMap_ra2_to_savant(map, cmd.id) IN
         IF t = None THEN None
         ELSE Some([kind |-> "QueryLoad", address |-> Unwrap(t)[1],
                    load_offset |-> Unwrap(t)[2]])
    [] OTHER -> None

savant_to_ra2(event, map) ==
  LET ra2_id == SavantIdMap_savant_to_ra2(map, event.address, event.load_offset) IN
  IF ra2_id = None THEN None ELSE Some(OutputLevel(Unwrap(ra2_id), event.level))

(***************************************************************************)
(* State                                                                   *)
(***************************************************************************)
VARIABLES
  \* --- one run of bridge::start (bridge.rs) and its AppState handles ---
  config,          \* AppState.config: Option<Config>, the live configuration
  started,         \* bridge::start has been called in this run
  leap_id_map,     \* IdMap built by bridge::start
  savant_id_map,   \* SavantIdMap built by bridge::start
  req_tx,          \* the routing loop's leap_req_tx / savant_req_tx is Some
  bridge_status,   \* AppState.bridge_status (watch channel value)
  state_tx,        \* AppState.{leap_req_tx, savant_req_tx, bridge_shutdown} are Some
  ra2_cmd,         \* buffer of the telnet -> bridge command queue
  req_ch,          \* buffer of the LEAP / Savant request queue
  shutdown_ch,     \* messages buffered in the shutdown channel
  orch_pc,         \* position of the routing loop
  orch_cmd,        \* the command the routing loop took last
  orch_req,        \* the request the routing loop is sending
  orch_log,        \* the log lines the routing loop wrote for orch_cmd
  orch_enq,        \* the requests enqueued for orch_cmd, per backend
  client_pc,       \* position of each backend client task
  zone_levels,     \* AppState.zone_levels: the Zone Level Cache
  \* --- one backend client task in detail (leap_client.rs / savant_client.rs run) ---
  run_backend,     \* which client this is
  run_pc,          \* position of run / connect_and_run
  backoff,         \* run's `backoff`
  sleep_secs,      \* the argument of run's last tokio::time::sleep (0: none yet)
  run_queue,       \* buffer of the client's request queue
  run_enq,         \* every request sent on the queue's sender, oldest first
  run_wire,        \* what was written to the current connection, in order
  run_rx,          \* inbound messages read from the current connection
  run_zones,       \* the `zones` the Savant client was started with
  run_events,      \* what the client sent on its event_tx, oldest first
  \* --- the bridges started over the life of the process (routes.rs, serve.rs) ---
  life_gen,        \* number of bridge::start calls so far
  life_status,     \* AppState.bridge_status
  life_handle,     \* AppState.bridge_shutdown: the bridge whose sender is stored
  life_orch,       \* position of the routing loop of each bridge
  life_sig,        \* messages buffered in the shutdown channel of each bridge
  life_client,     \* the client tasks of each bridge
  life_web,        \* position of the start, restart or activation handler in flight
  \* --- the configuration file and the handlers that read and write it ---
  cfg_file,        \* content of the file at AppState.config_path (None: no file)
  cfg_backup,      \* content of the .toml.bak copy write_config makes
  cfg_saved,       \* the configuration this program wrote to the file last
  cfg_reply,       \* the last configuration operation and its outcome
  \* --- the RA2 event broadcast channel and the telnet connections ---
  entry_point,     \* the function that set the bridge up: "start" or "run"
  listener,        \* the RA2 listener task: "binding", "listening" or "ended"
  ra2_events,      \* every event sent on ra2_event_tx, oldest first
  fwd_missed,      \* the backend event a forwarder took last had a key no map holds
  t_state,         \* state of each telnet connection
  t_user,          \* the line each connection sent at the login prompt
  t_pass,          \* the line each connection sent at the password prompt
  t_out,           \* what was written to each connection, in order
  t_next,          \* position in ra2_events of the event each receiver gets next
  t_warn,          \* lag warnings logged for each connection
  t_cmds,          \* the command each connection sent on cmd_tx last
  t_seen,          \* positions in ra2_events of the events each receiver got
  \* --- one application of a pure function (translators, codecs) ---
  pure_fn,         \* the functions applied
  pure_in,         \* their input
  pure_out,        \* their output (None: not applied yet)
  \* --- pairing with the processor (leap_pairing.rs) ---
  certs_dir,       \* the files of the certificate directory: name -> content
  pair_pc,         \* position of the pairing run in pair
  pair_runs,       \* pairing runs started so far
  pair_root,       \* the signing response held a RootCertificate
  pair_result,     \* how the last pairing run ended: "none", "Ok" or "Err"
  pair_rx,         \* the lines read from the pairing connection of the run
  pair_wire        \* the messages written to the pairing connection of the run

startVars == <<config, started, leap_id_map, savant_id_map, req_tx>>

orchVars == <<orch_pc, orch_cmd, orch_req, orch_log, orch_enq>>

bridgeVars ==
  <<startVars, bridge_status, state_tx, ra2_cmd, req_ch, shutdown_ch, orchVars,
    client_pc, zone_levels>>

\* The wire of one client task and the history of its queue.
runWire == <<run_enq, run_wire, run_rx>>

\* What the read arm of a client works with: the tracked zones, the events
\* published.
runIn == <<run_zones, run_events>>

runVars == <<run_backend, run_pc, backoff, sleep_secs, run_queue, runWire, runIn>>

lifeVars ==
  <<life_gen, life_status, life_handle, life_orch, life_sig, life_client, life_web>>

cfgVars == <<cfg_file, cfg_backup, cfg_saved, cfg_reply>>

connVars == <<t_state, t_user, t_pass, t_out, t_next, t_warn, t_cmds, t_seen>>

telnetVars == <<entry_point, listener, ra2_events, fwd_missed, connVars>>

pureVars == <<pure_fn, pure_in, pure_out>>

\* What only the specifications of pure functions and of pairing move.
\* The pairing connection: what was read from it and written to it.
pairConn == <<pair_rx, pair_wire>>

pairVars == <<certs_dir, pair_pc, pair_runs, pair_root, pair_result, pairConn>>

auxVars == <<pureVars, pairVars>>

\* What the actions of one bridge run leave alone.
otherVars == <<runVars, lifeVars, cfgVars, telnetVars, auxVars>>

\* What the actions of one client task leave alone.
nonRunVars == <<bridgeVars, lifeVars, cfgVars, telnetVars, auxVars>>

vars == <<bridgeVars, runVars, lifeVars, cfgVars, telnetVars, auxVars>>

Backends == {"leap", "savant"}

(***************************************************************************)
(* Each specification below moves one group of variables; these are the    *)
(* values a group keeps in the specifications that do not move it.         *)
(***************************************************************************)
\* A client task before its first connection attempt.
IdleRun ==
  /\ run_backend = "leap"
  /\ run_pc = "connect"
  /\ backoff = 1
  /\ sleep_secs = 0
  /\ run_queue = <<>>
  /\ run_enq = <<>>
  /\ run_wire = <<>>
  /\ run_rx = 0
  /\ run_zones = <<>>
  /\ run_events = <<>>

\* bridge::start is called at most MaxStarts times.
MaxStarts == 2

Bridges == 1..MaxStarts

\* The web server is up, no bridge was started yet.
IdleLife ==
  /\ life_gen = 0
  /\ life_status = "Stopped"
  /\ life_handle = None
  /\ life_orch = [g \in Bridges |-> "none"]
  /\ life_sig = [g \in Bridges |-> 0]
  /\ life_client = [g \in Bridges |-> [b \in Backends |-> "none"]]
  /\ life_web = "idle"

\* Telnet connections are accepted at most MaxClients times.
MaxClients == 1

Clients == 1..MaxClients

\* No event was published, no telnet client has connected.
NoClients ==
  /\ ra2_events = <<>>
  /\ fwd_missed = FALSE
  /\ t_state = [c \in Clients |-> "None"]
  /\ t_user = [c \in Clients |-> None]
  /\ t_pass = [c \in Clients |-> None]
  /\ t_out = [c \in Clients |-> <<>>]
  /\ t_next = [c \in Clients |-> 1]
  /\ t_warn = [c \in Clients |-> 0]
  /\ t_cmds = [c \in Clients |-> None]
  /\ t_seen = [c \in Clients |-> <<>>]

\* The bridge of the web server (bridge::start), no event, no telnet client.
IdleTelnet ==
  /\ entry_point = "start"
  /\ listener = "listening"
  /\ NoClients

\* No pure function is being applied.
IdlePure ==
  /\ pure_fn = "none"
  /\ pure_in = None
  /\ pure_out = None

\* The three credential files pair writes, and the names next to them that
\* a copy of an earlier file could take.
CredNames == {"ra-bridge.key", "ra-bridge.crt", "ca.crt"}

CopyNames == {"ra-bridge.key.bak", "ra-bridge.crt.bak", "ca.crt.bak"}

\* No pairing run was started, the certificate directory is empty.
IdlePair ==
  /\ certs_dir = [n \in CredNames \cup CopyNames |-> None]
  /\ pair_pc = "idle"
  /\ pair_runs = 0
  /\ pair_root = FALSE
  /\ pair_result = "none"
  /\ pair_rx = <<>>
  /\ pair_wire = <<>>

IdleAux == IdlePure /\ IdlePair

\* No configuration file, no configuration operation yet.
IdleCfg ==
  /\ cfg_file = None
  /\ cfg_backup = None
  /\ cfg_saved = None
  /\ cfg_reply = None

(***************************************************************************)
(* bridge::start as called by the bridge_start handler / serve()           *)
(***************************************************************************)
\* Before bridge::start: no map, no channel, no task.
NotStarted ==
  /\ started = FALSE
  /\ bridge_status = "Stopped"
  /\ leap_id_map = IdMap_from_zones(<<>>)
  /\ savant_id_map = SavantIdMap_from_zones(<<>>)
  /\ req_tx = [b \in Backends |-> FALSE]
  /\ state_tx = [leap |-> FALSE, savant |-> FALSE, shutdown |-> FALSE]
  /\ ra2_cmd = <<>>
  /\ req_ch = [b \in Backends |-> <<>>]
  /\ shutdown_ch = 0
  /\ orch_pc = "idle"
  /\ orch_cmd = None
  /\ orch_req = None
  /\ orch_log = <<>>
  /\ orch_enq = [b \in Backends |-> 0]
  /\ client_pc = [b \in Backends |-> "none"]
  /\ zone_levels = EmptyMap

\* serve() has loaded a configuration; the bridge is not started yet.
InitBridge ==
  /\ config \in { Some(c) : c \in Configs }
  /\ NotStarted

\* routes.rs bridge_start: refuse when Running/Starting, then bridge::start and
\* store the handle.  bridge::start builds the maps, spawns the telnet server,
\* the clients the configuration asks for, their forwarders and the routing loop.
BridgeStart ==
  /\ ~started
  /\ bridge_status \notin {"Running", "Starting"}
  /\ IsSome(config)
  /\ LET cfg == Unwrap(config) IN
     /\ leap_id_map' = IdMap_from_zones(cfg.zones)
     /\ savant_id_map' = SavantIdMap_from_zones(cfg.savant_zones)
     /\ req_tx' = [leap |-> has_leap(cfg), savant |-> has_savant(cfg)]
     /\ state_tx' = [leap |-> has_leap(cfg), savant |-> has_savant(cfg),
                     shutdown |-> TRUE]
  /\ started' = TRUE
  /\ client_pc' = [b \in Backends |-> IF req_tx'[b] THEN "connecting" ELSE "none"]
  /\ bridge_status' = "Running"
  /\ orch_pc' = "select"
  /\ UNCHANGED <<config, ra2_cmd, req_ch, shutdown_ch, orch_cmd, orch_req,
                 orch_log, orch_enq, zone_levels, otherVars>>

(***************************************************************************)
(* The routing loop of bridge::start (bridge.rs 158-204)                   *)
(***************************************************************************)
Warn(msg, id) == [level |-> "WARN", msg |-> msg, id |-> id]

Info(msg) == [level |-> "INFO", msg |-> msg, id |-> None]

\* The id the loop extracts from a command (bridge.rs 162-166).
CommandId(cmd) == IF cmd.kind \in {"SetOutput", "QueryOutput"} THEN Some(cmd.id) ELSE None

NoRoute(log) == [target |-> "none", req |-> None, log |-> log]

\* Route with the two ownership checks in the other order.
Route_SavantFirst(cmd, lmap, smap, tx) ==
  LET id == CommandId(cmd) IN
  IF IsSome(id)
  THEN IF IsSome(SavantIdMap_ra2_to_savant(smap, Unwrap(id)))
       THEN IF tx["savant"] /\ IsSome(ra2_to_savant(cmd, smap))
            THEN [target |-> "savant", req |-> ra2_to_savant(cmd, smap), log |-> <<>>]
            ELSE NoRoute(<<>>)
       ELSE IF IsSome(IdMap_ra2_to_leap(lmap, Unwrap(id)))
       THEN IF tx["leap"] /\ IsSome(ra2_to_leap(cmd, lmap))
            THEN [target |-> "leap", req |-> ra2_to_leap(cmd, lmap), log |-> <<>>]
            ELSE NoRoute(<<>>)
       ELSE NoRoute(<<Warn("No backend for ra2_id", id)>>)
  ELSE NoRoute(<<Info("Monitoring type")>>)

\* Route that drops a command of an unknown zone without a log line.
Route_SilentDrop(cmd, lmap, smap, tx) ==
  LET id == CommandId(cmd) IN
  IF IsSome(id)
  THEN IF IsSome(IdMap_ra2_to_leap(lmap, Unwrap(id)))
       THEN IF tx["leap"] /\ IsSome(ra2_to_leap(cmd, lmap))
            THEN [target |-> "leap", req |-> ra2_to_leap(cmd, lmap), log |-> <<>>]
            ELSE NoRoute(<<>>)
       ELSE IF IsSome(SavantIdMap_ra2_to_savant(smap, Unwrap(id)))
       THEN IF tx["savant"] /\ IsSome(ra2_to_savant(cmd, smap))
            THEN [target |-> "savant", req |-> ra2_to_savant(cmd, smap), log |-> <<>>]
            ELSE NoRoute(<<>>)
       ELSE NoRoute(<<>>)
  ELSE NoRoute(<<Info("Monitoring type")>>)

\* Route that hands a Monitoring command to the LEAP backend.
Route_MonitoringToLeap(cmd, lmap, smap, tx) ==
  LET id == CommandId(cmd) IN
  IF IsSome(id)
  THEN IF IsSome(IdMap_ra2_to_leap(lmap, Unwrap(id)))
       THEN IF tx["leap"] /\ IsSome(ra2_to_leap(cmd, lmap))
            THEN [target |-> "leap", req |-> ra2_to_leap(cmd, lmap), log |-> <<>>]
            ELSE NoRoute(<<>>)
       ELSE IF IsSome(SavantIdMap_ra2_to_savant(smap, Unwrap(id)))
       THEN IF tx["savant"] /\ IsSome(ra2_to_savant(cmd, smap))
            THEN [target |-> "savant", req |-> ra2_to_savant(cmd, smap), log |-> <<>>]
            ELSE NoRoute(<<>>)
       ELSE NoRoute(<<Warn("No backend for ra2_id", id)>>)
  ELSE IF tx["leap"]
       THEN [target |-> "leap",
             req |-> Some([communique_type |-> "SubscribeRequest", url |-> <<0, "status">>]),
             log |-> <<Info("Monitoring type")>>]
       ELSE NoRoute(<<Info("Monitoring type")>>)

\* The routing decision for one command (bridge.rs 168-195): the backend whose
\* queue gets a request, the request, and the lines logged before sending.
Route(cmd, lmap, smap, tx) ==
  LET id == CommandId(cmd) IN
  IF IsSome(id)
  THEN IF IsSome(IdMap_ra2_to_leap(lmap, Unwrap(id)))
       THEN IF tx["leap"] /\ IsSome(ra2_to_leap(cmd, lmap))
            THEN [target |-> "leap", req |-> ra2_to_leap(cmd, lmap), log |-> <<>>]
            ELSE NoRoute(<<>>)
       ELSE IF IsSome(SavantIdMap_ra2_to_savant(smap, Unwrap(id)))
       THEN IF tx["savant"] /\ IsSome(ra2_to_savant(cmd, smap))
            THEN [target |-> "savant", req |-> ra2_to_savant(cmd, smap), log |-> <<>>]
            ELSE NoRoute(<<>>)
       ELSE NoRoute(<<Warn("No backend for ra2_id", id)>>)
  ELSE NoRoute(<<Info("Monitoring type")>>)

\* A client task that has ended has dropped its queue receiver.
ReceiverDropped(b) == client_pc[b] = "ended"

\* Some(cmd) = ra2_cmd_rx.recv(): take a command and route it up to the send.
OrchRecv ==
  /\ orch_pc = "select"
  /\ ra2_cmd # <<>>
  /\ LET cmd == Head(ra2_cmd)
         r   == Route(cmd, leap_id_map, savant_id_map, req_tx)
     IN /\ ra2_cmd' = Tail(ra2_cmd)
        /\ orch_cmd' = Some(cmd)
        /\ orch_req' = r.req
        /\ orch_log' = r.log
        /\ orch_enq' = [b \in Backends |-> 0]
        /\ orch_pc' = IF r.target = "none" THEN "select" ELSE r.target
  /\ UNCHANGED <<startVars, bridge_status, state_tx, req_ch, shutdown_ch,
                 client_pc, zone_levels, otherVars>>

\* tx.send(req).await whose outcome is ignored: the failure is not logged.
OrchSend_Silent(b) ==
  /\ orch_pc = b
  /\ IF ReceiverDropped(b)
     THEN UNCHANGED <<req_ch, orch_enq, orch_log>>
     ELSE /\ Len(req_ch[b]) < QueueCap
          /\ req_ch' = [req_ch EXCEPT ![b] = Append(@, Unwrap(orch_req))]
          /\ orch_enq' = [orch_enq EXCEPT ![b] = @ + 1]
          /\ UNCHANGED orch_log
  /\ orch_pc' = "select"
  /\ UNCHANGED <<startVars, bridge_status, state_tx, ra2_cmd, shutdown_ch,
                 orch_cmd, orch_req, client_pc, zone_levels, otherVars>>

\* tx.send(req).await: waits while the queue is full, fails once the receiver
\* is dropped; the loop does not look at the shutdown channel meanwhile.
OrchSend(b) ==
  /\ orch_pc = b
  /\ IF ReceiverDropped(b)
     THEN /\ orch_log' = Append(orch_log, Warn("Failed to send request", None))
          /\ UNCHANGED <<req_ch, orch_enq>>
     ELSE /\ Len(req_ch[b]) < QueueCap
          /\ req_ch' = [req_ch EXCEPT ![b] = Append(@, Unwrap(orch_req))]
          /\ orch_enq' = [orch_enq EXCEPT ![b] = @ + 1]
          /\ UNCHANGED orch_log
  /\ orch_pc' = "select"
  /\ UNCHANGED <<startVars, bridge_status, state_tx, ra2_cmd, shutdown_ch,
                 orch_cmd, orch_req, client_pc, zone_levels, otherVars>>

\* _ = shutdown_rx.recv(): a message, or None once every sender is dropped.
\* The loop ends; its receivers and senders are dropped.
OrchShutdown ==
  /\ orch_pc = "select"
  /\ shutdown_ch > 0 \/ ~state_tx.shutdown
  /\ shutdown_ch' = 0
  /\ bridge_status' = "Stopped"
  /\ orch_pc' = "stopped"
  /\ ra2_cmd' = <<>>
  /\ req_tx' = [b \in Backends |-> FALSE]
  /\ UNCHANGED <<config, started, leap_id_map, savant_id_map, state_tx, req_ch,
                 orch_cmd, orch_req, orch_log, orch_enq, client_pc, zone_levels,
                 otherVars>>

\* routes.rs bridge_stop: take the shutdown sender, send, clear the handles.
BridgeStop ==
  /\ state_tx.shutdown
  /\ shutdown_ch' = shutdown_ch + 1
  /\ state_tx' = [leap |-> FALSE, savant |-> FALSE, shutdown |-> FALSE]
  /\ UNCHANGED <<startVars, bridge_status, ra2_cmd, req_ch, orchVars, client_pc,
                 zone_levels, otherVars>>

\* telnet_server.rs handle_client: cmd_tx.send(cmd).await of a parsed command.
TelnetCommand(cmd) ==
  /\ orch_pc \notin {"idle", "stopped"}
  /\ Len(ra2_cmd) < QueueCap
  /\ ra2_cmd' = Append(ra2_cmd, cmd)
  /\ UNCHANGED <<startVars, bridge_status, state_tx, req_ch, shutdown_ch,
                 orchVars, client_pc, zone_levels, otherVars>>

(***************************************************************************)
(* Backend client tasks (leap_client.rs run, savant_client.rs run)         *)
(***************************************************************************)
ClientStep(b, from, to) ==
  /\ client_pc[b] = from
  /\ client_pc' = [client_pc EXCEPT ![b] = to]

\* connect_and_run reaches its select loop.
ClientConnectOk(b) ==
  /\ ClientStep(b, "connecting", "connected")
  /\ UNCHANGED <<startVars, bridge_status, state_tx, ra2_cmd, req_ch,
                 shutdown_ch, orchVars, zone_levels, otherVars>>

\* connect_and_run returns Err before its select loop: run sleeps.
ClientConnectFail(b) ==
  /\ ClientStep(b, "connecting", "sleeping")
  /\ UNCHANGED <<startVars, bridge_status, state_tx, ra2_cmd, req_ch,
                 shutdown_ch, orchVars, zone_levels, otherVars>>

\* The sleep of run ends and the loop calls connect_and_run again.
ClientWake(b) ==
  /\ ClientStep(b, "sleeping", "connecting")
  /\ UNCHANGED <<startVars, bridge_status, state_tx, ra2_cmd, req_ch,
                 shutdown_ch, orchVars, zone_levels, otherVars>>

\* A read error, EOF or close frame in the select loop: Err, run sleeps.
ClientConnLost(b) ==
  /\ ClientStep(b, "connected", "sleeping")
  /\ UNCHANGED <<startVars, bridge_status, state_tx, ra2_cmd, req_ch,
                 shutdown_ch, orchVars, zone_levels, otherVars>>

\* Some(req) = req_rx.recv() and the write of the request; ok = the write
\* succeeded, otherwise `?` returns Err with the request already dequeued.
ClientSendReq(b, ok) ==
  /\ client_pc[b] = "connected"
  /\ req_ch[b] # <<>>
  /\ req_ch' = [req_ch EXCEPT ![b] = Tail(@)]
  /\ client_pc' = [client_pc EXCEPT ![b] = IF ok THEN "connected" ELSE "sleeping"]
  /\ UNCHANGED <<startVars, bridge_status, state_tx, ra2_cmd, shutdown_ch,
                 orchVars, zone_levels, otherVars>>

(***************************************************************************)
(* The configuration file and the live configuration (config.rs, serve.rs, *)
(* routes.rs put_config / discover / savant_discover / savant_remove,      *)
(* main.rs savant-discover, discover.rs write_config)                      *)
(***************************************************************************)
Ok == [ok |-> TRUE]

Err(msg, id) == [ok |-> FALSE, msg |-> msg, id |-> id]

ra2_id_of(z) == z.ra2_id

RECURSIVE FirstDuplicate(_, _)
\* for z in zones { if !seen.insert(z.ra2_id) { return Err } }: the first id
\* already seen, and the ids seen after the loop.
FirstDuplicate(ids, seen) ==
  IF ids = <<>> THEN [dup |-> None, seen |-> seen]
  ELSE IF Head(ids) \in seen THEN [dup |-> Some(Head(ids)), seen |-> seen]
  ELSE FirstDuplicate(Tail(ids), seen \cup {Head(ids)})

\* The ra2_id fields of a zone list, in order.
ra2_ids(zones) == [i \in 1..Len(zones) |-> ra2_id_of(zones[i])]

\* Config::validate: one `seen` set over the LEAP zones, then the Savant zones.
validate(cfg) ==
  LET l == FirstDuplicate(ra2_ids(cfg.zones), {})
      v == FirstDuplicate(ra2_ids(cfg.savant_zones), l.seen)
  IN IF IsSome(l.dup) THEN Err("Duplicate ra2_id in LEAP zones", Unwrap(l.dup))
     ELSE IF IsSome(v.dup)
     THEN Err("Duplicate ra2_id (Savant zone conflicts with existing zone)",
              Unwrap(v.dup))
     ELSE Ok

\* What a configuration file or a PUT body can hold besides Configs: a zone
\* id repeated within the LEAP list.
RepeatedZoneConfigs ==
  { [zones |-> <<ZoneMappingOf(i), ZoneMappingOf(i)>>, savant |-> FALSE,
     savant_zones |-> <<>>] : i \in ZoneIds }

FileConfigs == Configs \cup RepeatedZoneConfigs

\* The Config built when there is none: no zones, no Savant section.
DefaultConfig == [zones |-> <<>>, savant |-> FALSE, savant_zones |-> <<>>]

\* Any file may be on disk when the server starts; nothing is loaded yet.
InitCfg ==
  /\ cfg_file \in {None} \cup { Some(c) : c \in FileConfigs }
  /\ cfg_backup = None
  /\ cfg_saved = None
  /\ cfg_reply = None

\* What no configuration operation touches.
cfgRest == <<started, leap_id_map, savant_id_map, req_tx, bridge_status,
             state_tx, ra2_cmd, req_ch, shutdown_ch, orchVars, client_pc,
             runVars, lifeVars, telnetVars, auxVars>>

\* What the handlers that only load, update and save leave alone.
cfgOther == <<zone_levels, cfgRest>>

Reply(op, result) == Some([op |-> op, result |-> result])

\* Config::save(path) of cfg.
Save(cfg) ==
  /\ cfg_file' = Some(cfg)
  /\ cfg_saved' = Some(cfg)

\* Config::load(path) and the store of its result: serve() at startup,
\* activate_site, the reload after pairing.  Without a file nothing is loaded.
LoadConfig ==
  /\ IsSome(cfg_file)
  /\ config' = cfg_file
  /\ cfg_reply' = Reply("load", Ok)
  /\ UNCHANGED <<cfg_file, cfg_backup, cfg_saved, cfgOther>>

\* routes.rs put_config with a body that parses: save, then install.
PutConfig(new_config) ==
  /\ Save(new_config)
  /\ config' = Some(new_config)
  /\ cfg_reply' = Reply("put_config", Ok)
  /\ UNCHANGED <<cfg_backup, cfgOther>>

\* routes.rs discover: write_config copies an existing file to .toml.bak and
\* writes processor, telnet and the zones found; the file is then loaded and
\* installed.
Discover(zones) ==
  /\ IsSome(config)
  /\ cfg_backup' = IF IsSome(cfg_file) THEN cfg_file ELSE cfg_backup
  /\ Save([zones |-> zones, savant |-> FALSE, savant_zones |-> <<>>])
  /\ config' = cfg_file'
  /\ cfg_reply' = Reply("discover", Ok)
  /\ UNCHANGED cfgOther

\* routes.rs savant_discover: merge the zones found into the live
\* configuration (or a default one), validate, save, install.
SavantDiscover(savant_zones) ==
  LET base == IF IsSome(config) THEN Unwrap(config) ELSE DefaultConfig
      cfg  == [base EXCEPT !.savant = TRUE, !.savant_zones = savant_zones]
      v    == validate(cfg)
  IN /\ cfg_reply' = Reply("savant_discover", v)
     /\ IF v.ok THEN Save(cfg) /\ config' = Some(cfg)
        ELSE UNCHANGED <<cfg_file, cfg_saved, config>>
     /\ UNCHANGED <<cfg_backup, cfgOther>>

\* main.rs savant-discover: the same merge into the file, by another process.
SavantDiscoverCli(savant_zones) ==
  LET base == IF IsSome(cfg_file) THEN Unwrap(cfg_file) ELSE DefaultConfig
      cfg  == [base EXCEPT !.savant = TRUE, !.savant_zones = savant_zones]
      v    == validate(cfg)
  IN /\ cfg_reply' = Reply("savant-discover", v)
     /\ IF v.ok THEN Save(cfg) ELSE UNCHANGED <<cfg_file, cfg_saved>>
     /\ UNCHANGED <<config, cfg_backup, cfgOther>>

\* routes.rs savant_remove: drop the Savant section and zones, save.
SavantRemove ==
  /\ IsSome(config)
  /\ LET cfg == [Unwrap(config) EXCEPT !.savant = FALSE, !.savant_zones = <<>>]
     IN Save(cfg) /\ config' = Some(cfg)
  /\ cfg_reply' = Reply("savant_remove", Ok)
  /\ UNCHANGED <<cfg_backup, cfgOther>>

\* serve.rs activate_site: the paths now name the files of the site chosen,
\* the Zone Level Cache is cleared, the site's configuration is loaded (none
\* when the site has no file).
ActivateSite(site_file) ==
  /\ cfg_file' = site_file
  /\ cfg_backup' = None
  /\ zone_levels' = EmptyMap
  /\ config' = site_file
  /\ cfg_reply' = Reply("activate_site", Ok)
  /\ UNCHANGED <<cfg_saved, cfgRest>>

\* A write of the Zone Level Cache while a configuration is live: an event
\* forwarder (bridge.rs 78-79, 127-128) or set_zone_level (routes.rs 160, 187)
\* inserts the level of a zone of the configuration.
CacheWrite(id, level) ==
  /\ IsSome(config)
  /\ \E i \in 1..Len(ra2_ids(Unwrap(config).zones \o Unwrap(config).savant_zones)) :
       ra2_ids(Unwrap(config).zones \o Unwrap(config).savant_zones)[i] = id
  /\ zone_levels' = MapInsert(zone_levels, id, level)
  /\ UNCHANGED <<config, cfgVars, cfgRest>>

\* The zone lists a discovery can find.
DiscoveredZones == { ZoneList(SetToSeq(L)) : L \in SUBSET ZoneIds }

DiscoveredSavantZones ==
  { SavantZoneList(SetToSeq(S)) : S \in SUBSET ZoneIds }

NextCfg ==
  \/ LoadConfig
  \/ \E c \in FileConfigs : PutConfig(c)
  \/ \E z \in DiscoveredZones : Discover(z)
  \/ \E z \in DiscoveredSavantZones : SavantDiscover(z)
  \/ \E z \in DiscoveredSavantZones : SavantDiscoverCli(z)
  \/ SavantRemove
  \/ \E f \in {None} \cup { Some(c) : c \in FileConfigs } : ActivateSite(f)
  \/ \E id \in ZoneIds, level \in Levels : CacheWrite(id, level)

InitConfig ==
  /\ config = None
  /\ NotStarted
  /\ IdleRun
  /\ IdleLife
  /\ InitCfg
  /\ IdleTelnet
  /\ IdleAux

SpecConfig == InitConfig /\ [][NextCfg]_vars

\* C6: a configuration in which a zone id is in both lists, or repeated within
\* a list, is never installed as the live configuration and never written to
\* the configuration file, and the operation that met it has answered with an
\* error that names the id.
C6_ConflictRejected ==
  /\ IsSome(config) => validate(Unwrap(config)).ok
  /\ IsSome(cfg_saved) => validate(Unwrap(cfg_saved)).ok

\* C14: a step that replaces the live configuration leaves the Zone Level
\* Cache empty.
C14_CacheEmptiedOnReplace ==
  [][config' # config => zone_levels' = EmptyMap]_vars

(***************************************************************************)
(* The bridges of one process: start, stop, restart, site activation       *)
(* (routes.rs bridge_start / bridge_stop / bridge_restart, serve.rs        *)
(* activate_site).  Every bridge::start spawns a new routing loop and new  *)
(* client tasks; nothing aborts the tasks of an earlier bridge.            *)
(***************************************************************************)
InitLife ==
  /\ config \in { Some(c) : c \in Configs }
  /\ NotStarted
  /\ IdleRun
  /\ IdleLife
  /\ IdleCfg
  /\ IdleTelnet
  /\ IdleAux

lifeRest == <<started, leap_id_map, savant_id_map, req_tx, bridge_status,
              state_tx, ra2_cmd, req_ch, shutdown_ch, orchVars, client_pc,
              runVars, cfgVars, telnetVars, auxVars>>

lifeOther == <<lifeRest, zone_levels>>

\* bridge::start(cfg) and the store of its handle: a new routing loop, a new
\* client task per configured backend, status Running; the shutdown sender
\* stored before is dropped.
StartBridge(cfg) ==
  /\ life_gen' = life_gen + 1
  /\ life_orch' = [life_orch EXCEPT ![life_gen + 1] = "select"]
  /\ life_client' = [life_client EXCEPT ![life_gen + 1] =
                       [leap   |-> IF has_leap(cfg) THEN "down" ELSE "none",
                        savant |-> IF has_savant(cfg) THEN "down" ELSE "none"]]
  /\ life_handle' = Some(life_gen + 1)
  /\ life_status' = "Running"

\* The stop of bridge_stop / bridge_restart / activate_site: take the stored
\* shutdown sender and send on it.
StopBridge ==
  /\ life_sig' = [life_sig EXCEPT ![Unwrap(life_handle)] = 1]
  /\ life_handle' = None

\* routes.rs bridge_start: 409 when Running or Starting, 400 without config.
LifeBridgeStart ==
  /\ life_gen < MaxStarts
  /\ life_status \notin {"Running", "Starting"}
  /\ IsSome(config)
  /\ StartBridge(Unwrap(config))
  /\ UNCHANGED <<config, life_sig, life_web, lifeOther>>

\* routes.rs bridge_start of a request that runs beside the other handlers,
\* up to the await of state.config.read(): the look at the status and the 409.
LifeStartCheck ==
  /\ life_web = "idle"
  /\ life_gen < MaxStarts
  /\ life_status \notin {"Running", "Starting"}
  /\ life_web' = "start_checked"
  /\ UNCHANGED <<config, life_gen, life_status, life_handle, life_orch, life_sig,
                 life_client, lifeOther>>

\* The rest of that request: 400 without configuration, else Starting,
\* bridge::start and the store of its handle; the status is not read again.
LifeStartRun ==
  /\ life_web = "start_checked"
  /\ life_gen < MaxStarts
  /\ life_web' = "idle"
  /\ IF IsSome(config)
     THEN StartBridge(Unwrap(config))
     ELSE UNCHANGED <<life_gen, life_orch, life_client, life_handle, life_status>>
  /\ UNCHANGED <<config, life_sig, lifeOther>>

\* routes.rs bridge_stop: the status is left to the routing loop.
LifeBridgeStop ==
  /\ IsSome(life_handle)
  /\ StopBridge
  /\ UNCHANGED <<config, life_gen, life_status, life_orch, life_client, life_web,
                 lifeOther>>

\* routes.rs bridge_restart, up to its sleep of 500 ms.
LifeRestartStop ==
  /\ life_web = "idle"
  /\ IF IsSome(life_handle) THEN StopBridge ELSE UNCHANGED <<life_sig, life_handle>>
  /\ life_web' = "restart_sleep"
  /\ UNCHANGED <<config, life_gen, life_status, life_orch, life_client, lifeOther>>

\* routes.rs bridge_restart after the sleep: bridge_start, which may refuse.
LifeRestartStart ==
  /\ life_web = "restart_sleep"
  /\ life_gen < MaxStarts
  /\ life_web' = "idle"
  /\ IF life_status \notin {"Running", "Starting"} /\ IsSome(config)
     THEN StartBridge(Unwrap(config))
     ELSE UNCHANGED <<life_gen, life_orch, life_client, life_handle, life_status>>
  /\ UNCHANGED <<config, life_sig, lifeOther>>

\* serve.rs activate_site step 1: stop, set Stopped, sleep 300 ms.
LifeActivateStop ==
  /\ life_web = "idle"
  /\ IF IsSome(life_handle)
     THEN StopBridge /\ life_status' = "Stopped"
     ELSE UNCHANGED <<life_sig, life_handle, life_status>>
  /\ life_web' = "activate_sleep"
  /\ UNCHANGED <<config, life_gen, life_orch, life_client, lifeOther>>

\* serve.rs activate_site steps 2-6: clear the Zone Level Cache, load the
\* site's configuration (None when the file is missing or unreadable) and,
\* with configuration and certificates, bridge::start without a look at the
\* status.
LifeActivateStart(cfg, has_certs) ==
  /\ life_web = "activate_sleep"
  /\ life_gen < MaxStarts
  /\ life_web' = "idle"
  /\ zone_levels' = EmptyMap
  /\ config' = cfg
  /\ IF IsSome(cfg) /\ has_certs
     THEN StartBridge(Unwrap(cfg))
     ELSE UNCHANGED <<life_gen, life_orch, life_client, life_handle, life_status>>
  /\ UNCHANGED <<life_sig, lifeRest>>

\* The routing loop of bridge g takes its shutdown branch: a message, or None
\* once its sender is dropped.
LifeOrchShutdown(g) ==
  /\ life_orch[g] = "select"
  /\ life_sig[g] > 0 \/ life_handle # Some(g)
  /\ life_orch' = [life_orch EXCEPT ![g] = "stopped"]
  /\ life_sig' = [life_sig EXCEPT ![g] = 0]
  /\ life_status' = "Stopped"
  /\ UNCHANGED <<config, life_gen, life_handle, life_client, life_web, lifeOther>>

\* connect_and_run of a client of bridge g reaches its select loop.  A closed
\* request queue only disables the loop's `Some(req) = req_rx.recv()` branch.
LifeConnectOk(g, b) ==
  /\ life_client[g][b] = "down"
  /\ life_client' = [life_client EXCEPT ![g][b] = "connected"]
  /\ UNCHANGED <<config, life_gen, life_status, life_handle, life_orch, life_sig,
                 life_web, lifeOther>>

\* connect_and_run returns Err: run sleeps and connects again.
LifeConnLost(g, b) ==
  /\ life_client[g][b] = "connected"
  /\ life_client' = [life_client EXCEPT ![g][b] = "down"]
  /\ UNCHANGED <<config, life_gen, life_status, life_handle, life_orch, life_sig,
                 life_web, lifeOther>>

\* A connected client of bridge g reads a level report and publishes it; the
\* forwarder of the bridge (bridge.rs 72-89, 122-141), which runs until the
\* client drops its event sender, writes the level into the Zone Level Cache.
\* id is a zone of the configuration bridge g was started with.
LifeForward(g, b, id, level) ==
  /\ life_client[g][b] = "connected"
  /\ zone_levels' = MapInsert(zone_levels, id, level)
  /\ UNCHANGED <<config, lifeVars, lifeRest>>

NextLife ==
  \/ \E g \in Bridges, b \in Backends, id \in ZoneIds, level \in Levels :
       LifeForward(g, b, id, level)
  \/ LifeBridgeStart
  \/ LifeStartCheck
  \/ LifeStartRun
  \/ LifeBridgeStop
  \/ LifeRestartStop
  \/ LifeRestartStart
  \/ LifeActivateStop
  \/ \E c \in Configs, has_certs \in BOOLEAN : LifeActivateStart(Some(c), has_certs)
  \/ LifeActivateStart(None, FALSE)
  \/ \E g \in Bridges : LifeOrchShutdown(g)
  \/ \E g \in Bridges, b \in Backends : LifeConnectOk(g, b)
  \/ \E g \in Bridges, b \in Backends : LifeConnLost(g, b)

SpecLife == InitLife /\ [][NextLife]_vars

\* The connections a backend has open: one per connected client task.
Connections(b) == { g \in Bridges : life_client[g][b] = "connected" }

\* C3: at every moment at most one connection to the LEAP processor and at
\* most one connection to the Savant host is open.
C3_OneConnectionPerBackend ==
  \A b \in Backends : Cardinality(Connections(b)) <= 1

(***************************************************************************)
(* One client task in detail: run and connect_and_run                      *)
(* (leap_client.rs 223-326, savant_client.rs 34-177)                       *)
(***************************************************************************)
\* let max_backoff = 60u64;
MaxBackoff == 60

\* The requests the producers of the queue send, told apart by a number.
MaxRequest == 2

\* The request queue of the client task holds at most RunQueueCap requests.
RunQueueCap == 2

\* The producers send at most MaxEnqueued requests in all.
MaxEnqueued == 3

\* The keepalive / poll timer fires at most MaxTicks times per connection.
MaxTicks == 1

\* At most MaxReads inbound messages are read per connection.
MaxReads == 1

\* One write to the connection: a request taken from the queue (seq is its
\* position in run_enq), or a message the client writes of its own.
Written(kind, seq, req) == [kind |-> kind, seq |-> seq, req |-> req]

\* SavantZoneMapping with the address as the text of the configuration.
TrackedZone(id, address, load_offset) ==
  [ra2_id |-> id, address |-> address, load_offset |-> load_offset]

\* The zone lists a Savant client task is started with (has_savant: never
\* empty): one zone, and three zones on two modules.
RunZoneLists ==
  { <<TrackedZone(1, <<"0", "0", "1">>, 0)>>,
    <<TrackedZone(1, <<"0", "0", "1">>, 0), TrackedZone(2, <<"0", "0", "2">>, 1),
      TrackedZone(3, <<"0", "0", "1">>, 1)>> }

\* let mut backoff = 1u64; the task starts in its first connect_and_run.
InitRun ==
  /\ run_backend \in Backends
  /\ run_pc = "connect"
  /\ backoff = 1
  /\ sleep_secs = 0
  /\ run_queue = <<>>
  /\ run_enq = <<>>
  /\ run_wire = <<>>
  /\ run_rx = 0
  /\ run_zones \in (IF run_backend = "savant" THEN RunZoneLists ELSE {<<>>})
  /\ run_events = <<>>

\* The Err arm of run: log, then tokio::time::sleep(from_secs(backoff)).
RunErr ==
  /\ run_pc' = "sleep"
  /\ sleep_secs' = backoff
  /\ UNCHANGED <<run_backend, backoff>>

\* RunWake without the cap of max_backoff.
RunWake_NoCap ==
  /\ run_pc = "sleep"
  /\ backoff' = backoff * 2
  /\ run_pc' = "connect"
  /\ UNCHANGED <<run_backend, sleep_secs, run_queue, runWire, runIn, nonRunVars>>

\* After the sleep: backoff = (backoff * 2).min(max_backoff), and loop.
RunWake ==
  /\ run_pc = "sleep"
  /\ backoff' = Min(backoff * 2, MaxBackoff)
  /\ run_pc' = "connect"
  /\ UNCHANGED <<run_backend, sleep_secs, run_queue, runWire, runIn, nonRunVars>>

\* connect_and_run fails before the session is up: the TLS connector, the TCP
\* or TLS connect, the subscribe write; the WebSocket connect, devicePresent.
RunConnectFail ==
  /\ run_pc = "connect"
  /\ RunErr
  /\ UNCHANGED <<run_queue, runWire, runIn, nonRunVars>>

\* RunConnectOk entering the loop with nothing written.
RunConnectOk_NothingWritten ==
  /\ run_pc = "connect"
  /\ run_pc' = IF run_backend = "leap" THEN "loop" ELSE "handshake"
  /\ run_wire' = <<>>
  /\ run_rx' = 0
  /\ UNCHANGED <<run_backend, backoff, sleep_secs, run_queue, run_enq, runIn, nonRunVars>>

\* LEAP: connected and subscribed, the select loop starts.  Savant: connected,
\* devicePresent sent, waiting for session/deviceRecognized.  The first write
\* of the new connection is the SubscribeRequest / session/devicePresent.
RunConnectOk ==
  /\ run_pc = "connect"
  /\ run_pc' = IF run_backend = "leap" THEN "loop" ELSE "handshake"
  /\ run_wire' = <<Written("session", 0, 0)>>
  /\ run_rx' = 0
  /\ UNCHANGED <<run_backend, backoff, sleep_secs, run_queue, run_enq, runIn, nonRunVars>>

\* The initial state requests: one "state/module/<address>/get" for every
\* zone whose address seen_addresses did not hold yet, in the order of the
\* list; a request names the zone whose address it carries.
StateRequests(zones) ==
  LET first == SelectSeq([i \in 1..Len(zones) |-> i],
                         LAMBDA i : \A j \in 1..(i - 1) :
                                      zones[j].address # zones[i].address)
  IN [k \in 1..Len(first) |-> Written("state", 0, first[k])]

\* RunRecognized with one state request for every zone of the list.
RunRecognized_PerZone(ok) ==
  /\ run_pc = "handshake"
  /\ IF ok
     THEN /\ run_pc' = "loop"
          /\ run_wire' = run_wire \o [i \in 1..Len(run_zones) |-> Written("state", 0, i)]
          /\ UNCHANGED <<run_backend, backoff, sleep_secs>>
     ELSE RunErr /\ UNCHANGED run_wire
  /\ UNCHANGED <<run_queue, run_enq, run_rx, runIn, nonRunVars>>

\* Savant: a text whose URI contains deviceRecognized arrives (texts of other
\* URIs and other frames are passed over) and the initial state requests are
\* written (ok), or one of these writes fails after some of them.
RunRecognized(ok) ==
  /\ run_pc = "handshake"
  /\ IF ok
     THEN /\ run_pc' = "loop"
          /\ run_wire' = run_wire \o StateRequests(run_zones)
          /\ UNCHANGED <<run_backend, backoff, sleep_secs>>
     ELSE /\ RunErr
          /\ \E k \in 0..(Len(StateRequests(run_zones)) - 1) :
               run_wire' = run_wire \o SubSeq(StateRequests(run_zones), 1, k)
  /\ UNCHANGED <<run_queue, run_enq, run_rx, runIn, nonRunVars>>

\* Savant: close frame, end of stream or error during the handshake.
RunHandshakeClosed ==
  /\ run_pc = "handshake"
  /\ RunErr
  /\ UNCHANGED <<run_queue, runWire, runIn, nonRunVars>>

\* The select loop returns Err: read error, EOF, close frame, or a failed
\* write of a keepalive ping / poll.
RunConnLost ==
  /\ run_pc = "loop"
  /\ RunErr
  /\ UNCHANGED <<run_queue, runWire, runIn, nonRunVars>>

\* RunSendReq that writes the newest request of the queue first.
RunSendReq_NewestFirst(ok) ==
  /\ run_pc = "loop"
  /\ run_queue # <<>>
  /\ run_queue' = SubSeq(run_queue, 1, Len(run_queue) - 1)
  /\ run_wire' = IF ok THEN Append(run_wire, run_queue[Len(run_queue)]) ELSE run_wire
  /\ IF ok THEN UNCHANGED <<run_backend, run_pc, backoff, sleep_secs>> ELSE RunErr
  /\ UNCHANGED <<run_enq, run_rx, runIn, nonRunVars>>

\* Some(req) = req_rx.recv(): the request is dequeued and written (ok) or the
\* write fails and connect_and_run returns Err.
RunSendReq(ok) ==
  /\ run_pc = "loop"
  /\ run_queue # <<>>
  /\ run_queue' = Tail(run_queue)
  /\ run_wire' = IF ok THEN Append(run_wire, Head(run_queue)) ELSE run_wire
  /\ IF ok THEN UNCHANGED <<run_backend, run_pc, backoff, sleep_secs>> ELSE RunErr
  /\ UNCHANGED <<run_enq, run_rx, runIn, nonRunVars>>

\* The timer arm of the select loop: the LEAP keepalive ping, the Savant poll
\* of every tracked module, written (ok) or failing.
Ticks == Len(SelectSeq(run_wire, LAMBDA w : w.kind = "tick"))

RunTick(ok) ==
  /\ run_pc = "loop"
  /\ Ticks < MaxTicks
  /\ IF ok
     THEN /\ run_wire' = Append(run_wire, Written("tick", 0, 0))
          /\ UNCHANGED <<run_backend, run_pc, backoff, sleep_secs>>
     ELSE RunErr /\ UNCHANGED run_wire
  /\ UNCHANGED <<run_queue, run_enq, run_rx, runIn, nonRunVars>>

\* The read arm of the select loop: one inbound line / text frame is read and
\* handled (published on event_tx, or logged and skipped).
RunRead ==
  /\ run_pc = "loop"
  /\ run_rx < MaxReads
  /\ run_rx' = run_rx + 1
  /\ UNCHANGED <<run_backend, run_pc, backoff, sleep_secs, run_queue, run_enq,
                 run_wire, runIn, nonRunVars>>

\* A producer (the routing loop, set_zone_level) enqueues a request.
RunEnqueue(r) ==
  /\ Len(run_queue) < RunQueueCap
  /\ Len(run_enq) < MaxEnqueued
  /\ run_enq' = Append(run_enq, r)
  /\ run_queue' = Append(run_queue, Written("req", Len(run_enq) + 1, r))
  /\ UNCHANGED <<run_backend, run_pc, backoff, sleep_secs, run_wire, run_rx,
                 runIn, nonRunVars>>

NextRun ==
  \/ RunWake
  \/ RunConnectFail
  \/ RunConnectOk
  \/ \E ok \in BOOLEAN : RunRecognized(ok)
  \/ RunHandshakeClosed
  \/ RunConnLost
  \/ \E ok \in BOOLEAN : RunSendReq(ok)
  \/ \E ok \in BOOLEAN : RunTick(ok)
  \/ RunRead
  \/ \E r \in 1..MaxRequest : RunEnqueue(r)

\* The bridge run around the client is left in its initial state.
IdleBridge ==
  /\ config = None
  /\ NotStarted

InitClient == InitRun /\ IdleBridge /\ IdleLife /\ IdleCfg /\ IdleTelnet /\ IdleAux

SpecClient == InitClient /\ [][NextRun]_vars

(***************************************************************************)
(* Properties of the reconnect loop                                        *)
(***************************************************************************)
\* run starts a sleep in this step.
SleepStarts == run_pc # "sleep" /\ run_pc' = "sleep"

\* C4: in both clients, the first delay slept is 1 s and every later delay is
\* min(2 x the previous delay, 60): the delays are 1, 2, 4, 8, 16, 32, 60,
\* 60, ... and never decrease.
C4_BackoffDoublesToCap ==
  [][ SleepStarts =>
        /\ sleep_secs' = IF sleep_secs = 0 THEN 1 ELSE Min(2 * sleep_secs, 60)
        /\ sleep_secs' >= sleep_secs
        /\ sleep_secs' \in {1, 2, 4, 8, 16, 32, 60} ]_vars

\* C4 witness: a client sleeps 60 s after a failed attempt, its backoff already
\* at the cap (the delay before was 60 s too).
C4_Witness ==
  /\ run_pc = "sleep"
  /\ sleep_secs = 60
  /\ backoff = 60

\* C5: when an established session fails, the delay slept before the next
\* attempt is 1 s.
C5_DelayResetsAfterSuccess ==
  [][ (run_pc = "loop" /\ run_pc' = "sleep") => sleep_secs' = 1 ]_vars

\* The requests among what was written to the current connection.
WireRequests == SelectSeq(run_wire, LAMBDA w : w.kind = "req")

\* C11: within one connection the requests written are requests that were
\* enqueued, each written once and in the order of enqueueing, whatever reads
\* and timer ticks come in between: each written request is the one enqueued
\* right after the request written before it.
C11_WrittenInQueueOrder ==
  /\ \A i \in 1..Len(WireRequests) :
       /\ WireRequests[i].seq \in 1..Len(run_enq)
       /\ WireRequests[i].req = run_enq[WireRequests[i].seq]
  /\ \A i \in 1..(Len(WireRequests) - 1) :
       WireRequests[i + 1].seq = WireRequests[i].seq + 1

\* Two requests that waited in the queue together were written to one
\* connection, with a timer tick between them and an inbound read.
C11_Witness ==
  /\ Len(WireRequests) = 2
  /\ \E i, j, k \in 1..Len(run_wire) :
       /\ i < j /\ j < k
       /\ run_wire[i].kind = "req" /\ run_wire[j].kind = "tick"
       /\ run_wire[k].kind = "req"
  /\ run_rx > 0
  /\ Len(run_enq) = MaxEnqueued

(***************************************************************************)
(* Specification of one bridge run: the command path                       *)
(***************************************************************************)
Init == InitBridge /\ IdleRun /\ IdleLife /\ IdleCfg /\ IdleTelnet /\ IdleAux

Next ==
  \/ BridgeStart
  \/ BridgeStop
  \/ \E cmd \in Ra2Commands : TelnetCommand(cmd)
  \/ OrchRecv
  \/ \E b \in Backends : OrchSend(b)
  \/ OrchShutdown
  \/ \E b \in Backends : ClientConnectOk(b)
  \/ \E b \in Backends : ClientConnectFail(b)
  \/ \E b \in Backends : ClientWake(b)
  \/ \E b \in Backends : ClientConnLost(b)
  \/ \E b \in Backends, ok \in BOOLEAN : ClientSendReq(b, ok)

Spec == Init /\ [][Next]_vars

\* The tokio scheduler runs every task that can make progress; a connection
\* attempt ends (in success or in an error); select! picks a ready branch at
\* random, so a branch that is ready again and again is taken.  Nothing is
\* assumed of the backends (an attempt may fail every time) nor of the users.
Fairness ==
  /\ WF_vars(OrchRecv)
  /\ SF_vars(OrchShutdown)
  /\ \A b \in Backends :
       /\ WF_vars(OrchSend(b))
       /\ WF_vars(ClientConnectOk(b) \/ ClientConnectFail(b))
       /\ WF_vars(ClientWake(b))
       /\ WF_vars(\E ok \in BOOLEAN : ClientSendReq(b, ok))

FairSpec == Spec /\ Fairness

(***************************************************************************)
(* Properties of the command path                                          *)
(***************************************************************************)
InLeapMap(z) == z \in DOMAIN leap_id_map.ra2_to_leap

InSavantMap(z) == z \in DOMAIN savant_id_map.ra2_to_savant

\* The routing loop has taken a command that carries a zone id.
ZoneCommandTaken == IsSome(orch_cmd) /\ IsSome(CommandId(Unwrap(orch_cmd)))

TakenZone == Unwrap(CommandId(Unwrap(orch_cmd)))

\* C1: for every command carrying a zone id z that the routing loop has taken,
\* a request was enqueued on the LEAP queue only if z is in the LEAP map, on the
\* Savant queue only if z is not in the LEAP map and is in the Savant map, and
\* never more than one request in all (so never on both queues).
C1_RoutedByOwnership ==
  ZoneCommandTaken =>
    /\ orch_enq["leap"] > 0 => InLeapMap(TakenZone)
    /\ orch_enq["savant"] > 0 => ~InLeapMap(TakenZone) /\ InSavantMap(TakenZone)
    /\ orch_enq["leap"] + orch_enq["savant"] <= 1
    /\ orch_pc = "leap" => InLeapMap(TakenZone)
    /\ orch_pc = "savant" => ~InLeapMap(TakenZone) /\ InSavantMap(TakenZone)

\* C1 witness: with both clients running, a command for a zone that both maps
\* hold was enqueued on the LEAP queue and on no other.
C1_Witness ==
  /\ ZoneCommandTaken
  /\ req_tx["leap"] /\ req_tx["savant"]
  /\ InLeapMap(TakenZone) /\ InSavantMap(TakenZone)
  /\ orch_enq = [leap |-> 1, savant |-> 0]
  /\ req_ch["leap"] # <<>>

IsWarn(line) == line.level = "WARN"

\* C2: when the routing loop takes a command whose zone id is in neither map,
\* that step finishes the command: nothing is enqueued on either request
\* queue, the Zone Level Cache is unchanged, and exactly one warning is logged.
C2_UnknownZoneDropped ==
  [][ ( /\ OrchRecv
        /\ IsSome(CommandId(Head(ra2_cmd)))
        /\ ~InLeapMap(Unwrap(CommandId(Head(ra2_cmd))))
        /\ ~InSavantMap(Unwrap(CommandId(Head(ra2_cmd)))) )
      => ( /\ req_ch' = req_ch
           /\ zone_levels' = zone_levels
           /\ orch_pc' = "select"
           /\ orch_enq' = [b \in Backends |-> 0]
           /\ Len(SelectSeq(orch_log', IsWarn)) = 1 ) ]_vars

\* C2 witness: with both clients running, the routing loop has taken a command
\* for a zone of neither map and is back at its select.
C2_Witness ==
  /\ ZoneCommandTaken
  /\ req_tx["leap"] /\ req_tx["savant"]
  /\ ~InLeapMap(TakenZone) /\ ~InSavantMap(TakenZone)
  /\ orch_log = <<Warn("No backend for ra2_id", Some(TakenZone))>>
  /\ orch_pc = "select"

\* The routing loop has taken a Monitoring command.
MonitoringTaken == IsSome(orch_cmd) /\ Unwrap(orch_cmd).kind = "Monitoring"

\* C15: for a Monitoring command the routing loop has taken, neither
\* translator gives a request, whatever the identifier maps hold; the loop has
\* no request in hand, is not sending to a backend, has enqueued nothing on
\* either request queue, and has logged the command and nothing else.
C15_MonitoringNeverRouted ==
  MonitoringTaken =>
    /\ ra2_to_leap(Unwrap(orch_cmd), leap_id_map) = None
    /\ ra2_to_savant(Unwrap(orch_cmd), savant_id_map) = None
    /\ orch_req = None
    /\ orch_pc \notin Backends
    /\ \A b \in Backends : orch_enq[b] = 0
    /\ orch_log = <<Info("Monitoring type")>>

\* A Monitoring command was taken while both backends run and both maps hold
\* a zone.
C15_Witness ==
  /\ MonitoringTaken
  /\ \A b \in Backends : req_tx[b] /\ client_pc[b] = "connected"
  /\ \E z \in ZoneIds : InLeapMap(z)
  /\ \E z \in ZoneIds : InSavantMap(z)

\* C9: once the shutdown signal has been sent, the routing loop stops and the
\* bridge status becomes Stopped.
C9_ShutdownStopsLoop ==
  (shutdown_ch > 0) ~> (orch_pc = "stopped" /\ bridge_status = "Stopped")

\* C10: once the routing loop has stopped and every sender of a backend's
\* request queue is dropped, that backend's client task ends.
C10_ClientEnds ==
  \A b \in Backends :
    (orch_pc = "stopped" /\ ~state_tx[b] /\ client_pc[b] # "none")
      ~> (client_pc[b] = "ended")

(***************************************************************************)
(* The telnet server and the RA2 event broadcast channel                   *)
(* (telnet_server.rs, ra2_protocol.rs, the event forwarders of bridge.rs)  *)
(***************************************************************************)
\* Capacity of the RA2 event broadcast channel (256 in the source).
BroadcastCap == 1
\* Events are published until a receiver can have lagged and caught up.
MaxPublished == BroadcastCap + 1

\* A line is the sequence of its pieces: a word, or one whitespace character.
Whitespace == {" ", "\t", "\r", "\n"}

RECURSIVE TrimStart(_)
TrimStart(line) ==
  IF line # <<>> /\ Head(line) \in Whitespace THEN TrimStart(Tail(line)) ELSE line

RECURSIVE TrimEnd(_)
TrimEnd(line) ==
  IF line # <<>> /\ line[Len(line)] \in Whitespace
  THEN TrimEnd(SubSeq(line, 1, Len(line) - 1)) ELSE line

\* str::trim
Trim(line) == TrimEnd(TrimStart(line))

\* login_flow accepting on the username alone.
login_flow_UserOnly(user_line, pass_line) == Trim(user_line) = <<"lutron">>

\* The result of login_flow for the two lines it reads.
login_flow(user_line, pass_line) ==
  Trim(user_line) = <<"lutron">> /\ Trim(pass_line) = <<"integration">>

\* The lines clients send at the login prompt and at the password prompt; the
\* empty line is a read at end of stream.
UserLines ==
  { <<"lutron", "\r", "\n">>, <<" ", "lutron", "\r", "\n">>, <<"admin", "\r", "\n">> }

PassLines == { <<"integration", "\r", "\n">>, <<>> }

\* A command line: its first character and the comma-separated parts after
\* it; the keyword is a string, every other part a text.
Line(prefix, parts) == [prefix |-> prefix, parts |-> parts]

\* to_uppercase of the keywords the parser knows.
Upper(w) ==
  CASE w \in {"OUTPUT", "output"} -> "OUTPUT"
    [] w \in {"MONITORING", "monitoring"} -> "MONITORING"
    [] OTHER -> w

parse_action(parts) ==
  IF parts = <<>> THEN None
  ELSE CASE Upper(parts[1]) = "OUTPUT" ->
              IF Len(parts) < 4 THEN None
              ELSE LET id     == parse_u32(Trim(parts[2]))
                       action == parse_u32(Trim(parts[3]))
                       level  == parse_f64(Trim(parts[4]))
                   IN IF id = None \/ action = None THEN None
                      ELSE IF Unwrap(action) # 1 THEN None
                      ELSE IF level = None THEN None
                      ELSE Some(SetOutput(Unwrap(id), Unwrap(level),
                                          IF Len(parts) >= 5
                                          THEN parse_f64(Trim(parts[5]))
                                          ELSE None))
         [] Upper(parts[1]) = "MONITORING" ->
              IF Len(parts) < 3 THEN None
              ELSE LET mon_type == parse_u32(Trim(parts[2]))
                       action   == parse_u32(Trim(parts[3]))
                   IN IF mon_type = None \/ action = None THEN None
                      ELSE Some(Monitoring(Unwrap(mon_type), Unwrap(action) = 1))
         [] OTHER -> None

parse_query(parts) ==
  IF parts = <<>> THEN None
  ELSE CASE Upper(parts[1]) = "OUTPUT" ->
              IF Len(parts) < 3 THEN None
              ELSE LET id == parse_u32(Trim(parts[2])) IN
                   IF id = None THEN None ELSE Some(QueryOutput(Unwrap(id)))
         [] OTHER -> None

\* A line is its first byte and the parts of the rest between the commas:
\* the keyword, then the fields as texts.
parse_command(line) ==
  CASE line.prefix = "#" -> parse_action(line.parts)
    [] line.prefix = "?" -> parse_query(line.parts)
    [] OTHER -> None

\* format_event, without the trailing CR LF: the parts between the commas of
\* format!("~OUTPUT,{},1,{:.2}", id, level).
format_event(ev) == <<"~OUTPUT", FormatDec(ev.id), <<"1">>, format_2(ev.level)>>

\* The command lines clients send once logged in.
CommandLines ==
  { Line("#", <<"OUTPUT", <<"1">>, <<"1">>, <<"1", "0", "0">>>>),
    Line("?", <<"output", <<"1">>, <<"1">>>>),
    Line("x", <<"OUTPUT", <<"1">>, <<"1">>>>) }

\* The events a forwarder receives from its client: reports of configured
\* zones, of a zone no map holds, and (LEAP) a body without a level.
BackendEvents(b) ==
  IF b = "leap"
  THEN { [href |-> 4 + i, level |-> Some(l)] : i \in CommandIds, l \in Levels }
       \cup { [href |-> 4 + i, level |-> None] : i \in ZoneIds }
  ELSE { [address |-> 1, load_offset |-> i - 1, level |-> l] :
           i \in CommandIds, l \in Levels }

\* The RA2 event a forwarder makes of a backend event.
Translate(b, event) ==
  IF b = "leap" THEN leap_to_ra2(event, leap_id_map)
  ELSE savant_to_ra2(event, savant_id_map)

\* The configurations of the bridge the telnet server belongs to: valid, with
\* a Savant section, every zone id mapped by one backend.
TelnetConfigs ==
  { c \in Configs :
      /\ validate(c).ok
      /\ c.savant
      /\ Len(c.zones) + Len(c.savant_zones) = MaxZone }

\* A bridge has been set up: maps built, forwarders and telnet server
\* spawned, no event yet, no telnet connection yet.
BridgeUp ==
  /\ config \in { Some(c) : c \in TelnetConfigs }
  /\ started = TRUE
  /\ leap_id_map = IdMap_from_zones(Unwrap(config).zones)
  /\ savant_id_map = SavantIdMap_from_zones(Unwrap(config).savant_zones)
  /\ req_tx = [leap |-> has_leap(Unwrap(config)), savant |-> has_savant(Unwrap(config))]
  /\ state_tx = [leap |-> req_tx["leap"], savant |-> req_tx["savant"], shutdown |-> TRUE]
  /\ bridge_status = "Running"
  /\ ra2_cmd = <<>>
  /\ req_ch = [b \in Backends |-> <<>>]
  /\ shutdown_ch = 0
  /\ orch_pc = "select"
  /\ orch_cmd = None
  /\ orch_req = None
  /\ orch_log = <<>>
  /\ orch_enq = [b \in Backends |-> 0]
  /\ client_pc = [b \in Backends |-> IF req_tx[b] THEN "connected" ELSE "none"]
  /\ zone_levels = EmptyMap
  /\ IdleRun
  /\ IdleLife
  /\ IdleCfg
  /\ listener = "listening"
  /\ NoClients
  /\ IdleAux

\* The bridge of the web server, set up by bridge::start.
InitTelnet == entry_point = "start" /\ BridgeUp

\* bridge::start (serve, the web handlers) or bridge::run (the run command)
\* has set the bridge up.  bridge::run has no AppState: no cache, no status,
\* no shutdown handle.
InitForward == entry_point \in {"start", "run"} /\ BridgeUp

fwdOther == <<entry_point, listener, config, started, leap_id_map, savant_id_map, req_tx, bridge_status,
                 state_tx, ra2_cmd, req_ch, shutdown_ch, orchVars, client_pc,
                 runVars, lifeVars, cfgVars, auxVars>>

\* What the connections leave alone.
telnetOther == <<fwd_missed, fwdOther>>

\* The backend key of an event is in the identifier map of its backend.
KeyKnown(b, event) ==
  IF b = "leap" THEN IsSome(IdMap_leap_to_ra2(leap_id_map, event.href))
  ELSE IsSome(SavantIdMap_savant_to_ra2(savant_id_map, event.address,
                                        event.load_offset))

\* Forward with an event of an unknown key published under the id 0.
Forward_PublishUnknown(b, event) ==
  /\ req_tx[b]
  /\ Len(ra2_events) < MaxPublished
  /\ LET ra2_event == Translate(b, event) IN
     IF IsSome(ra2_event)
     THEN /\ zone_levels' = IF entry_point = "start"
                            THEN MapInsert(zone_levels, Unwrap(ra2_event).id,
                                           Unwrap(ra2_event).level)
                            ELSE zone_levels
          /\ ra2_events' = Append(ra2_events, Unwrap(ra2_event))
     ELSE IF KeyKnown(b, event) THEN UNCHANGED <<zone_levels, ra2_events>>
     ELSE /\ ra2_events' = Append(ra2_events, OutputLevel(0, Whole(0)))
          /\ UNCHANGED zone_levels
  /\ fwd_missed' = ~KeyKnown(b, event)
  /\ UNCHANGED <<connVars, fwdOther>>

\* Forward as the forwarders of bridge::run do it everywhere: no cache write.
Forward_NoCache(b, event) ==
  /\ req_tx[b]
  /\ Len(ra2_events) < MaxPublished
  /\ LET ra2_event == Translate(b, event) IN
     IF IsSome(ra2_event)
     THEN ra2_events' = Append(ra2_events, Unwrap(ra2_event))
     ELSE UNCHANGED ra2_events
  /\ fwd_missed' = ~KeyKnown(b, event)
  /\ UNCHANGED <<zone_levels, connVars, fwdOther>>

\* One turn of the event forwarder of backend b.  bridge::start (bridge.rs
\* 72-89, 122-141): an event that translates is written to the Zone Level Cache
\* and sent on the broadcast channel.  bridge::run (bridge.rs 256-271, 295-310):
\* it is only sent.  broadcast::Sender::send does not wait for any receiver.
Forward(b, event) ==
  /\ req_tx[b]
  /\ Len(ra2_events) < MaxPublished
  /\ LET ra2_event == Translate(b, event) IN
     IF IsSome(ra2_event)
     THEN /\ zone_levels' = IF entry_point = "start"
                            THEN MapInsert(zone_levels, Unwrap(ra2_event).id,
                                           Unwrap(ra2_event).level)
                            ELSE zone_levels
          /\ ra2_events' = Append(ra2_events, Unwrap(ra2_event))
     ELSE UNCHANGED <<zone_levels, ra2_events>>
  /\ fwd_missed' = ~KeyKnown(b, event)
  /\ UNCHANGED <<connVars, fwdOther>>

\* telnet_server::run accepts a connection: event_tx.subscribe(), then
\* handle_client writes the login prompt.
Accept(c) ==
  /\ listener = "listening"
  /\ t_state[c] = "None"
  /\ \A d \in Clients : d < c => t_state[d] # "None"
  /\ t_state' = [t_state EXCEPT ![c] = "AwaitingUsername"]
  /\ t_next' = [t_next EXCEPT ![c] = Len(ra2_events) + 1]
  /\ t_out' = [t_out EXCEPT ![c] = <<"login: ">>]
  /\ UNCHANGED <<t_user, t_pass, t_warn, t_cmds, t_seen, ra2_events, zone_levels, telnetOther>>

\* login_flow reads the username line and writes the password prompt.
SubmitUsername(c, line) ==
  /\ t_state[c] = "AwaitingUsername"
  /\ t_user' = [t_user EXCEPT ![c] = Some(line)]
  /\ t_out' = [t_out EXCEPT ![c] = Append(@, "password: ")]
  /\ t_state' = [t_state EXCEPT ![c] = "AwaitingPassword"]
  /\ UNCHANGED <<t_pass, t_next, t_warn, t_cmds, t_seen, ra2_events, zone_levels, telnetOther>>

\* login_flow reads the password line and decides; handle_client writes the
\* prompt and goes on, or returns and the connection is closed.
SubmitPassword(c, line) ==
  /\ t_state[c] = "AwaitingPassword"
  /\ t_pass' = [t_pass EXCEPT ![c] = Some(line)]
  /\ IF login_flow(Unwrap(t_user[c]), line)
     THEN /\ t_out' = [t_out EXCEPT ![c] = Append(@, "GNET> ")]
          /\ t_state' = [t_state EXCEPT ![c] = "Authenticated"]
     ELSE /\ t_out' = [t_out EXCEPT ![c] = Append(@, "login incorrect\r\n")]
          /\ t_state' = [t_state EXCEPT ![c] = "Closed"]
  /\ UNCHANGED <<t_user, t_next, t_warn, t_cmds, t_seen, ra2_events, zone_levels, telnetOther>>

\* The oldest event the channel still holds.
OldestRetained ==
  IF Len(ra2_events) > BroadcastCap THEN Len(ra2_events) - BroadcastCap + 1 ELSE 1

\* The receiver of connection c has been overtaken by the channel.
Lagging(c) == t_next[c] < OldestRetained

\* WriterRecv that gives up the connection when its receiver lagged.
WriterRecv_CloseOnLag(c) ==
  /\ t_state[c] = "Authenticated"
  /\ IF Lagging(c)
     THEN /\ t_warn' = [t_warn EXCEPT ![c] = @ + 1]
          /\ t_state' = [t_state EXCEPT ![c] = "Closed"]
          /\ UNCHANGED <<t_next, t_out, t_seen>>
     ELSE /\ t_next[c] <= Len(ra2_events)
          /\ t_out' = [t_out EXCEPT ![c] =
                         @ \o <<format_event(ra2_events[t_next[c]]), "GNET> ">>]
          /\ t_next' = [t_next EXCEPT ![c] = @ + 1]
          /\ t_seen' = [t_seen EXCEPT ![c] = Append(@, t_next[c])]
          /\ UNCHANGED <<t_warn, t_state>>
  /\ UNCHANGED <<t_user, t_pass, t_cmds, ra2_events, zone_levels, telnetOther>>

\* WriterRecv whose receiver stays on the event it has just delivered.
WriterRecv_Redeliver(c) ==
  /\ t_state[c] = "Authenticated"
  /\ IF Lagging(c)
     THEN /\ t_warn' = [t_warn EXCEPT ![c] = @ + 1]
          /\ t_next' = [t_next EXCEPT ![c] = OldestRetained]
          /\ UNCHANGED <<t_out, t_seen>>
     ELSE /\ t_next[c] <= Len(ra2_events)
          /\ Len(t_seen[c]) < MaxPublished
          /\ t_out' = [t_out EXCEPT ![c] =
                         @ \o <<format_event(ra2_events[t_next[c]]), "GNET> ">>]
          /\ t_seen' = [t_seen EXCEPT ![c] = Append(@, t_next[c])]
          /\ UNCHANGED <<t_warn, t_next>>
  /\ UNCHANGED <<t_state, t_user, t_pass, t_cmds, ra2_events, zone_levels, telnetOther>>

\* One turn of the event writer task (telnet_server.rs 52-78): event_rx.recv()
\* is Err(Lagged(n)), which is logged and moves the receiver to the oldest
\* event held, or Ok(ev), which is written with a prompt after it.
WriterRecv(c) ==
  /\ t_state[c] = "Authenticated"
  /\ IF Lagging(c)
     THEN /\ t_warn' = [t_warn EXCEPT ![c] = @ + 1]
          /\ t_next' = [t_next EXCEPT ![c] = OldestRetained]
          /\ UNCHANGED <<t_out, t_seen>>
     ELSE /\ t_next[c] <= Len(ra2_events)
          /\ t_out' = [t_out EXCEPT ![c] =
                         @ \o <<format_event(ra2_events[t_next[c]]), "GNET> ">>]
          /\ t_next' = [t_next EXCEPT ![c] = @ + 1]
          /\ t_seen' = [t_seen EXCEPT ![c] = Append(@, t_next[c])]
          /\ UNCHANGED t_warn
  /\ UNCHANGED <<t_state, t_user, t_pass, t_cmds, ra2_events, zone_levels, telnetOther>>

\* What read_line yields for a line whose bytes are no UTF-8 text: the error
\* InvalidData.
InvalidData == [error |-> "InvalidData"]

\* What the reads of the command loop yield: a line of text, or an error.
Reads == CommandLines \cup {InvalidData}

\* The command loop reads a line; a line that parses is sent on cmd_tx.  A
\* read that fails leaves handle_client by `?` with the error: the connection
\* is dropped and run logs "disconnected".
ClientLine(c, line) ==
  /\ t_state[c] = "Authenticated"
  /\ IF "error" \in DOMAIN line
     THEN /\ t_state' = [t_state EXCEPT ![c] = "Failed"]
          /\ UNCHANGED t_cmds
     ELSE /\ LET cmd == parse_command(line) IN
             t_cmds' = [t_cmds EXCEPT ![c] = IF IsSome(cmd) THEN cmd ELSE @]
          /\ UNCHANGED t_state
  /\ UNCHANGED <<t_user, t_pass, t_out, t_next, t_warn, t_seen, ra2_events,
                 zone_levels, telnetOther>>

\* The command loop reads end of stream: the writer task is told to stop and
\* the connection is closed.
ClientClose(c) ==
  /\ t_state[c] = "Authenticated"
  /\ t_state' = [t_state EXCEPT ![c] = "Closed"]
  /\ UNCHANGED <<t_user, t_pass, t_out, t_next, t_warn, t_cmds, t_seen, ra2_events,
                 zone_levels, telnetOther>>

NextTelnet ==
  \/ \E b \in Backends : \E event \in BackendEvents(b) : Forward(b, event)
  \/ \E c \in Clients : Accept(c)
  \/ \E c \in Clients, line \in UserLines : SubmitUsername(c, line)
  \/ \E c \in Clients, line \in PassLines : SubmitPassword(c, line)
  \/ \E c \in Clients : WriterRecv(c)
  \/ \E c \in Clients, line \in CommandLines : ClientLine(c, line)
  \/ \E c \in Clients : ClientClose(c)

SpecTelnet == InitTelnet /\ [][NextTelnet]_vars

\* The command loops of the connections of the telnet server of either entry
\* point, with every outcome of a read.
NextLines ==
  \/ \E c \in Clients : Accept(c)
  \/ \E c \in Clients, line \in UserLines : SubmitUsername(c, line)
  \/ \E c \in Clients, line \in PassLines : SubmitPassword(c, line)
  \/ \E c \in Clients, line \in Reads : ClientLine(c, line)
  \/ \E c \in Clients : ClientClose(c)

SpecLines == InitForward /\ [][NextLines]_vars

\* The forwarders of either entry point and the connections that receive what
\* they publish; no command line is sent.
NextForward ==
  \/ \E b \in Backends : \E event \in BackendEvents(b) : Forward(b, event)
  \/ \E c \in Clients : Accept(c)
  \/ \E c \in Clients, line \in UserLines : SubmitUsername(c, line)
  \/ \E c \in Clients, line \in PassLines : SubmitPassword(c, line)
  \/ \E c \in Clients : WriterRecv(c)
  \/ \E c \in Clients : ClientClose(c)

SpecForward == InitForward /\ [][NextForward]_vars

(***************************************************************************)
(* Properties of the telnet server                                         *)
(***************************************************************************)
\* The connection has been through the whole login exchange.
LoginDone(c) == IsSome(t_user[c]) /\ IsSome(t_pass[c])

\* What a line submits: the line without its terminator (LF, or CR LF).
Submitted(line) ==
  LET n == Len(line)
      a == IF n > 0 /\ line[n] = "\n" THEN SubSeq(line, 1, n - 1) ELSE line
      m == Len(a)
  IN IF m > 0 /\ a[m] = "\r" THEN SubSeq(a, 1, m - 1) ELSE a

\* The connection was refused: the error line is the last thing written to
\* it, it is closed, no prompt and no event line was written, no command sent.
Refused(c) ==
  /\ t_state[c] = "Closed"
  /\ t_out[c] = <<"login: ", "password: ", "login incorrect\r\n">>
  /\ t_cmds[c] = None
  /\ t_warn[c] = 0

C8_LagStep ==
  \A c \in Clients :
    (Lagging(c) /\ WriterRecv(c)) =>
      /\ t_warn'[c] = t_warn[c] + 1
      /\ t_state'[c] = "Authenticated"
      /\ t_out'[c] = t_out[c]
      /\ t_next'[c] = OldestRetained

C8_DeliveryStep ==
  \A c \in Clients :
    (~Lagging(c) /\ WriterRecv(c)) =>
      /\ t_out'[c] = t_out[c] \o <<format_event(ra2_events[t_next[c]]), "GNET> ">>
      /\ t_next'[c] = t_next[c] + 1
      /\ t_warn'[c] = t_warn[c]
      /\ t_state'[c] = "Authenticated"

C8_PublisherFree ==
  \A b \in Backends :
    (req_tx[b] /\ Len(ra2_events) < MaxPublished) =>
      \A event \in BackendEvents(b) : ENABLED Forward(b, event)

C8_LaggingSubscriberContinues ==
  /\ []C8_PublisherFree
  /\ [][C8_LagStep /\ C8_DeliveryStep]_vars

\* C8 witness: a connection that lagged and was warned about it has since been
\* written the newest event published, and is still open.
C8_Witness ==
  \E c \in Clients :
    /\ t_state[c] = "Authenticated"
    /\ t_warn[c] > 0
    /\ Len(ra2_events) = MaxPublished
    /\ t_next[c] = Len(ra2_events) + 1
    /\ t_out[c][Len(t_out[c]) - 1] = format_event(ra2_events[Len(ra2_events)])

\* The event lines among what was written to connection c, in order.
\* (after the two login prompts and the first GNET prompt, each event line is
\* followed by a prompt)
EventLines(c) == [i \in 1..((Len(t_out[c]) - 3) \div 2) |-> t_out[c][2 + 2 * i]]

Published == Len(ra2_events') = Len(ra2_events) + 1

\* The event a Published step sends.
NewEvent == ra2_events'[Len(ra2_events')]

\* The Zone Level Cache holds the level of the event just published.
CacheHoldsNewEvent ==
  /\ NewEvent.id \in DOMAIN zone_levels'
  /\ zone_levels'[NewEvent.id] = NewEvent.level

\* C13 as stated: every forwarder of every entry point has written the level
\* of an event to the Zone Level Cache when it publishes the event.
C13_CacheSetBeforePublish == [][Published => CacheHoldsNewEvent]_vars

\* C13, amended: the forwarders spawned by bridge::start have written the
\* level of an event to the Zone Level Cache when they publish the event.
C13_StartForwarderSetsCache ==
  [][(Published /\ entry_point = "start") => CacheHoldsNewEvent]_vars

\* A forwarder of bridge::start has published an event of zone 1 and the
\* cache holds its level.
C13_Witness ==
  /\ entry_point = "start"
  /\ ra2_events # <<>>
  /\ 1 \in DOMAIN zone_levels
  /\ zone_levels[1] = ra2_events[Len(ra2_events)].level

\* A forwarder takes an event whose backend key no identifier map holds.
UnknownKeyTaken == fwd_missed' /\ ~fwd_missed

\* A forwarder can take an event of a configured zone and publish it.
ForwardsKnown ==
  \E b \in Backends : \E event \in BackendEvents(b) :
    /\ IsSome(Translate(b, event))
    /\ Forward(b, event)

\* C19: a backend event whose key is in no identifier map publishes no RA2
\* event, reaches no telnet connection and changes no Zone Level Cache entry,
\* and the forwarder goes on forwarding the events that follow.
C19_UnknownKeyDropped ==
  /\ [][UnknownKeyTaken => UNCHANGED <<ra2_events, zone_levels, connVars>>]_vars
  /\ []((fwd_missed /\ Len(ra2_events) < MaxPublished) =>
          ENABLED ForwardsKnown)

\* Witness: an event of an unknown key was the last one taken, with a cache
\* entry written, an event published and a connection that has received it.
C19_Witness ==
  /\ fwd_missed
  /\ zone_levels # EmptyMap
  /\ ra2_events # <<>>
  /\ \E c \in Clients : t_state[c] = "Authenticated" /\ t_seen[c] # <<>>

(***************************************************************************)
(* Pure functions: the translators over the identifier maps                *)
(* (translator.rs, savant_translator.rs, id_map.rs, savant_id_map.rs)      *)
(***************************************************************************)
\* What no application of a pure function touches.
nonPureVars == <<bridgeVars, runVars, lifeVars, cfgVars, telnetVars, pairVars>>

\* The LEAP zone paths and the Savant load offsets of the zone lists below.
PureHrefs == { 4 + i : i \in CommandIds }

PureOffsets == { i - 1 : i \in CommandIds }

\* Zone lists as a configuration file can hold them and Config::validate lets
\* them pass: the ids of a list differ, two zones of a list may name the same
\* LEAP path / the same Savant load.
PureZoneLists ==
  UNION { { [i \in 1..Len(SetToSeq(S)) |->
               [ra2_id |-> SetToSeq(S)[i], leap_href |-> f[SetToSeq(S)[i]]]] :
            f \in [S -> PureHrefs] } : S \in SUBSET CommandIds }

PureSavantZoneLists ==
  UNION { { [i \in 1..Len(SetToSeq(S)) |->
               [ra2_id |-> SetToSeq(S)[i], address |-> 1,
                load_offset |-> f[SetToSeq(S)[i]]]] :
            f \in [S -> PureOffsets] } : S \in SUBSET CommandIds }

\* The inputs of a round trip through the translators: the two zone lists the
\* maps are built from, a zone id and a level.
TranslateInputs ==
  [zones : PureZoneLists, savant_zones : PureSavantZoneLists,
   id : CommandIds, level : Levels]

\* The report a backend sends of the load a request set, at the level set:
\* LEAP ZoneStatus of the zone of the request URL, Savant LoadLevel of the
\* (address, offset) of the request.
LeapReport(req) == [href |-> req.url[1], level |-> Some(req.body.Level)]

SavantReport(req) ==
  [address |-> req.address, load_offset |-> req.load_offset, level |-> req.level]

\* ra2_to_leap then leap_to_ra2 / ra2_to_savant then savant_to_ra2 of
\* SetOutput{id, level}, with the maps built from the zone lists.
RoundTrip(in) ==
  LET lmap == IdMap_from_zones(in.zones)
      smap == SavantIdMap_from_zones(in.savant_zones)
      cmd  == SetOutput(in.id, in.level, None)
      lreq == ra2_to_leap(cmd, lmap)
      sreq == ra2_to_savant(cmd, smap)
  IN [leap   |-> IF IsSome(lreq) THEN leap_to_ra2(LeapReport(Unwrap(lreq)), lmap)
                 ELSE None,
      savant |-> IF IsSome(sreq) THEN savant_to_ra2(SavantReport(Unwrap(sreq)), smap)
                 ELSE None]

InitTranslate ==
  /\ pure_fn = "translate"
  /\ pure_in \in TranslateInputs
  /\ pure_out = None

ApplyTranslate ==
  /\ pure_fn = "translate"
  /\ pure_out = None
  /\ pure_out' = Some(RoundTrip(pure_in))
  /\ UNCHANGED <<pure_fn, pure_in, nonPureVars>>

(***************************************************************************)
(* Pure functions: the Savant load key (savant_client.rs encode_request,   *)
(* parse_state_body).  A u32 is kept as its two 16-bit halves.             *)
(***************************************************************************)
\* 1 << 16
U16 == 65536

\* the mask of `load_offset & 1023`
OffsetMask == 1023

LowerDigits == <<"0", "1", "2", "3", "4", "5", "6", "7", "8", "9",
                 "a", "b", "c", "d", "e", "f">>

UpperDigits == <<"0", "1", "2", "3", "4", "5", "6", "7", "8", "9",
                 "A", "B", "C", "D", "E", "F">>

\* char::to_digit(16): the value of a hex digit of either case, None otherwise.
to_digit(ch) ==
  IF \E i \in 1..16 : LowerDigits[i] = ch \/ UpperDigits[i] = ch
  THEN Some((CHOOSE i \in 1..16 : LowerDigits[i] = ch \/ UpperDigits[i] = ch) - 1)
  ELSE None

\* The digits loop of u32::from_str_radix(_, 16): value = value * 16 + digit,
\* an error on a character that is no digit and on overflow of 32 bits.
RECURSIVE ParseDigits(_, _)
ParseDigits(str, value) ==
  IF str = <<>> THEN Some(value)
  ELSE LET d == to_digit(Head(str)) IN
       IF d = None THEN None
       ELSE LET lo == value.lo * 16 + Unwrap(d)
                hi == value.hi * 16 + (lo \div U16)
            IN IF hi >= U16 THEN None
               ELSE ParseDigits(Tail(str), [hi |-> hi, lo |-> lo % U16])

\* u32::from_str_radix(str, 16): an empty string is an error, one leading "+"
\* is accepted.
from_str_radix(str) ==
  LET digits == IF str # <<>> /\ Head(str) = "+" THEN Tail(str) ELSE str IN
  IF digits = <<>> THEN None ELSE ParseDigits(digits, [hi |-> 0, lo |-> 0])

\* format!("{:x}", n) / format!("{:X}", n) of a number below 2^16.
RECURSIVE FormatHex16(_, _)
FormatHex16(n, digits) ==
  IF n < 16 THEN <<digits[n + 1]>>
  ELSE FormatHex16(n \div 16, digits) \o <<digits[(n % 16) + 1]>>

\* Zero padding on the left up to a width.
RECURSIVE PadZero(_, _)
PadZero(str, width) ==
  IF Len(str) >= width THEN str ELSE PadZero(<<"0">> \o str, width)

\* format!("{:x}", key) of a u32.
FormatHex32(key) ==
  IF key.hi = 0 THEN FormatHex16(key.lo, LowerDigits)
  ELSE FormatHex16(key.hi, LowerDigits) \o PadZero(FormatHex16(key.lo, LowerDigits), 4)

\* encode_request of SetLoad{address, load_offset}: the "state" of the message,
\* "load." and the key (int_address << 16) | (load_offset & 1023) in hex.  The
\* shift drops the upper half of int_address.
encode_request(address, load_offset) ==
  LET parsed      == from_str_radix(address)
      int_address == IF IsSome(parsed) THEN Unwrap(parsed) ELSE [hi |-> 0, lo |-> 0]
      load_key    == [hi |-> int_address.lo, lo |-> load_offset % (OffsetMask + 1)]
  IN [prefix |-> "load.", hex_key |-> FormatHex32(load_key)]

\* parse_state_body of a "load.XXXX" state: the (address, load_offset) handed
\* to emit_if_tracked; the address is written as format!("{:03X}", key >> 16).
parse_state_body(state) ==
  IF state.prefix # "load." THEN None
  ELSE LET load_key == from_str_radix(state.hex_key) IN
       IF load_key = None THEN None
       ELSE Some(<<PadZero(FormatHex16(Unwrap(load_key).hi, UpperDigits), 3),
                   Unwrap(load_key).lo % (OffsetMask + 1)>>)

\* Module addresses: hex strings of at most MaxAddressLen digits.
MaxAddressLen == 5

AddressChars == {"0", "1", "a", "F"}

\* The texts of at most n characters over a set of characters.
RECURSIVE Texts(_, _)
Texts(chars, n) ==
  IF n = 0 THEN {<<>>}
  ELSE Texts(chars, n - 1) \cup
       { Append(str, ch) : str \in { t \in Texts(chars, n - 1) : Len(t) = n - 1 },
                           ch \in chars }

Addresses == Texts(AddressChars, MaxAddressLen) \ {<<>>}

LoadOffsets == {0, 1, OffsetMask}

InitLoadKey ==
  /\ pure_fn = "load_key"
  /\ pure_in \in [address : Addresses, load_offset : LoadOffsets]
  /\ pure_out = None

ApplyLoadKey ==
  /\ pure_fn = "load_key"
  /\ pure_out = None
  /\ pure_out' =
       Some(parse_state_body(encode_request(pure_in.address, pure_in.load_offset)))
  /\ UNCHANGED <<pure_fn, pure_in, nonPureVars>>

(***************************************************************************)
(* Pure functions: the RA2 line (ra2_protocol.rs parse_command,            *)
(* format_event)                                                           *)
(***************************************************************************)
\* The id and level fields of a line are texts of at most MaxIdLen and
\* MaxLevelLen characters.
MaxIdLen == 2

MaxLevelLen == 4

IdChars == {"1", "+", " "}

LevelChars == {"0", "1", "6", ".", "-"}

LevelTexts ==
  Texts(LevelChars, MaxLevelLen) \cup {<<"i", "n", "f">>, <<"N", "a", "N">>}

\* The lines "#OUTPUT,<id>,1,<level>", well formed or not.
OutputLines ==
  { Line("#", <<"OUTPUT", id, <<"1">>, level>>) :
      id \in Texts(IdChars, MaxIdLen), level \in LevelTexts }

InitLine ==
  /\ pure_fn = "line"
  /\ pure_in \in OutputLines
  /\ pure_out = None

\* parse_command of the line, then format_event of OutputLevel with the id and
\* the level of the command.
ApplyLine ==
  /\ pure_fn = "line"
  /\ pure_out = None
  /\ pure_out' =
       Some(LET cmd == parse_command(pure_in) IN
            IF cmd = None THEN None
            ELSE Some([cmd  |-> Unwrap(cmd),
                       line |-> format_event(OutputLevel(Unwrap(cmd).id,
                                                         Unwrap(cmd).level))]))
  /\ UNCHANGED <<pure_fn, pure_in, nonPureVars>>

(***************************************************************************)
(* Properties of the pure functions                                        *)
(***************************************************************************)
\* The zone id of a round trip is in the LEAP map only / the Savant map only.
InLeapOnly(in) ==
  /\ \E i \in 1..Len(in.zones) : in.zones[i].ra2_id = in.id
  /\ \A i \in 1..Len(in.savant_zones) : in.savant_zones[i].ra2_id # in.id

InSavantOnly(in) ==
  /\ \E i \in 1..Len(in.savant_zones) : in.savant_zones[i].ra2_id = in.id
  /\ \A i \in 1..Len(in.zones) : in.zones[i].ra2_id # in.id

\* C16: for a zone id held by exactly one identifier map, ra2_to_<backend> of
\* SetOutput{id, level} followed by <backend>_to_ra2 of the backend's report of
\* that load at that level gives OutputLevel{id, level}.
C16_RoundTripRecovers ==
  (pure_fn = "translate" /\ IsSome(pure_out)) =>
    /\ InLeapOnly(pure_in) =>
         Unwrap(pure_out).leap = Some(OutputLevel(pure_in.id, pure_in.level))
    /\ InSavantOnly(pure_in) =>
         Unwrap(pure_out).savant = Some(OutputLevel(pure_in.id, pure_in.level))

\* C17: parse_state_body of the state encode_request writes for
\* (address, load_offset) gives (address, load_offset) back.
C17_LoadKeyRoundTrip ==
  (pure_fn = "load_key" /\ IsSome(pure_out)) =>
    Unwrap(pure_out) = Some(<<pure_in.address, pure_in.load_offset>>)

\* A valid line was parsed and its event formatted.
LineDone == pure_fn = "line" /\ IsSome(pure_out) /\ IsSome(Unwrap(pure_out))

LineCmd == Unwrap(Unwrap(pure_out)).cmd

LineOut == Unwrap(Unwrap(pure_out)).line

\* A text is digits, ".", two digits, with or without "-" in front.
TwoDecimals(text) ==
  LET digits == IF text # <<>> /\ Head(text) = "-" THEN Tail(text) ELSE text
      n      == Len(digits)
  IN /\ n >= 4
     /\ digits[n - 2] = "."
     /\ AllDigits(SubSeq(digits, 1, n - 3))
     /\ AllDigits(SubSeq(digits, n - 1, n))

\* == of two f64: NaN equals nothing, the two zeros are equal.
F64Eq(a, b) ==
  /\ a.class # "nan"
  /\ b.class # "nan"
  /\ \/ a = b
     \/ a.class = "finite" /\ b.class = "finite" /\ a.mant = 0 /\ b.mant = 0

\* Two finite values of one sign differ by half a hundredth at most.
WithinHalfHundredth(a, b) ==
  LET scale == IF a.scale >= b.scale THEN a.scale ELSE b.scale
      S     == IF scale >= 2 THEN scale ELSE 2
      x     == a.mant * Pow10(S - a.scale)
      y     == b.mant * Pow10(S - b.scale)
  IN /\ a.class = "finite" /\ b.class = "finite"
     /\ a.neg = b.neg
     /\ 2 * (IF x >= y THEN x - y ELSE y - x) <= Pow10(S - 2)

\* The event line names the id of the command and action 1.
LineKeepsId ==
  /\ Len(LineOut) = 4
  /\ LineOut[1] = "~OUTPUT"
  /\ parse_u32(LineOut[2]) = Some(LineCmd.id)
  /\ LineOut[3] = <<"1">>

\* C18 as stated: for every valid line "#OUTPUT,<id>,1,<level>", parse_command
\* then format_event gives "~OUTPUT,<id>,1,<level>" with the same id, the level
\* written with exactly two decimals, and that text is the same level value.
C18_ParseFormatRoundTrip ==
  LineDone =>
    /\ LineKeepsId
    /\ TwoDecimals(LineOut[4])
    /\ IsSome(parse_f64(LineOut[4]))
    /\ F64Eq(Unwrap(parse_f64(LineOut[4])), LineCmd.level)

\* C18 as the code has it: the id is kept; a finite level is written with
\* exactly two decimals, as the nearest hundredth, which is the same value when
\* the level has two decimals at most; an infinite or NaN level, which the
\* parser accepts, is written "inf", "-inf" or "NaN".
C18_RoundTripToTwoDecimals ==
  LineDone =>
    /\ LineKeepsId
    /\ LineCmd.level.class = "finite" =>
         /\ TwoDecimals(LineOut[4])
         /\ IsSome(parse_f64(LineOut[4]))
         /\ WithinHalfHundredth(Unwrap(parse_f64(LineOut[4])), LineCmd.level)
         /\ LineCmd.level.scale <= 2 =>
              F64Eq(Unwrap(parse_f64(LineOut[4])), LineCmd.level)
    /\ LineCmd.level.class # "finite" =>
         LineOut[4] \in {<<"i", "n", "f">>, <<"-", "i", "n", "f">>, <<"N", "a", "N">>}

\* Witness: " 1" and "1.06" were parsed and written as "1" and "1.06"; ".106"
\* is written as "0.11".
C18_Witness ==
  /\ LineDone
  /\ pure_in.parts[2] = <<" ", "1">>
  /\ \/ pure_in.parts[4] = <<"1", ".", "0", "6">> /\ LineOut[4] = <<"1", ".", "0", "6">>
     \/ pure_in.parts[4] = <<".", "1", "0", "6">> /\ LineOut[4] = <<"0", ".", "1", "1">>
  /\ LineOut[2] = <<"1">>

(***************************************************************************)
(* Pure functions: the level of a "#OUTPUT" line on its way to a backend   *)
(* (ra2_protocol.rs parse_action, translator.rs, savant_translator.rs,     *)
(* savant_client.rs encode_request)                                        *)
(***************************************************************************)
\* u32::MAX as its two halves.
U32Max == [hi |-> U16 - 1, lo |-> U16 - 1]

\* `level.round() as u32`: f64::round goes to the nearest whole number, half
\* way cases away from zero; the cast saturates (below zero: 0, above
\* u32::MAX: u32::MAX) and gives 0 for NaN.
round_as_u32(level) ==
  CASE level.class = "nan" -> [hi |-> 0, lo |-> 0]
    [] level.class = "inf" -> IF level.neg THEN [hi |-> 0, lo |-> 0] ELSE U32Max
    [] OTHER ->
         LET unit == Pow10(level.scale)
             n    == (level.mant \div unit) + (IF 2 * (level.mant % unit) >= unit THEN 1 ELSE 0)
         IN IF level.neg THEN [hi |-> 0, lo |-> 0]
            ELSE [hi |-> n \div U16, lo |-> n % U16]

\* The "value" of the message encode_request makes of SetLoad:
\* format!("{}%.0", level.round() as u32).
encode_value(level) ==
  LET n == round_as_u32(level) IN
  (IF n = U32Max THEN <<"4", "2", "9", "4", "9", "6", "7", "2", "9", "5">>
   ELSE FormatDec(n.hi * U16 + n.lo))
  \o <<"%", ".", "0">>

InitSend ==
  /\ pure_fn = "send"
  /\ pure_in \in OutputLines
  /\ pure_out = None

\* parse_command of the line; then, with the zone of the command in the map of
\* the backend, ra2_to_leap gives the body of the LEAP request, ra2_to_savant
\* and encode_request the value of the Savant message.
ApplySend ==
  /\ pure_fn = "send"
  /\ pure_out = None
  /\ pure_out' =
       Some(LET cmd == parse_command(pure_in) IN
            IF cmd = None THEN None
            ELSE LET id   == Unwrap(cmd).id
                     lreq == ra2_to_leap(Unwrap(cmd), IdMap_from_zones(ZoneList(<<id>>)))
                     sreq == ra2_to_savant(Unwrap(cmd),
                                           SavantIdMap_from_zones(SavantZoneList(<<id>>)))
                 IN Some([leap   |-> Unwrap(lreq).body,
                          savant |-> encode_value(Unwrap(sreq).level)]))
  /\ UNCHANGED <<pure_fn, pure_in, nonPureVars>>

(***************************************************************************)
(* Pure functions: the identifier maps of a configuration (bridge.rs       *)
(* start, id_map.rs, savant_id_map.rs)                                     *)
(***************************************************************************)
InitMaps ==
  /\ pure_fn = "maps"
  /\ pure_in \in [zones : PureZoneLists, savant_zones : PureSavantZoneLists]
  /\ pure_out = None

\* bridge::start builds the two maps from the zone lists of the configuration
\* it is given.
ApplyMaps ==
  /\ pure_fn = "maps"
  /\ pure_out = None
  /\ pure_out' = Some([leap   |-> IdMap_from_zones(pure_in.zones),
                       savant |-> SavantIdMap_from_zones(pure_in.savant_zones)])
  /\ UNCHANGED <<pure_fn, pure_in, nonPureVars>>

(***************************************************************************)
(* Specification of the pure functions: one input is drawn, the function   *)
(* is applied to it once.                                                  *)
(***************************************************************************)
InitPure ==
  /\ InitTranslate \/ InitLoadKey \/ InitLine \/ InitSend \/ InitMaps
  /\ IdleBridge
  /\ IdleRun
  /\ IdleLife
  /\ IdleCfg
  /\ IdleTelnet
  /\ IdlePair

NextPure ==
  \/ ApplyTranslate
  \/ ApplyLoadKey
  \/ ApplyLine
  \/ ApplySend
  \/ ApplyMaps

SpecPure == InitPure /\ [][NextPure]_vars

(***************************************************************************)
(* Pairing (leap_pairing.rs pair)                                          *)
(***************************************************************************)
\* pair is run at most MaxPairRuns times on one certificate directory.
MaxPairRuns == 2

\* What the other specifications move.
nonPairVars == <<bridgeVars, runVars, lifeVars, cfgVars, telnetVars, pureVars>>

\* The content of a credential file: what it is and the pairing run that made
\* it (run 0: a file that was there before the first run).
Content(what, run) == [what |-> what, run |-> run]

\* LUTRON_ROOT_CA_PEM, the same text in every run.
LUTRON_ROOT_CA_PEM == [what |-> "LUTRON_ROOT_CA_PEM", run |-> 0]

\* std::fs::write(path, content): the file holds the content, whatever it held.
fs_write(dir, name, content) == [dir EXCEPT ![name] = Some(content)]

\* pair returns Err(_): the `?` and bail! of pair.
PairFails ==
  /\ pair_pc' = "idle"
  /\ pair_result' = "Err"

\* pair is called: create_dir_all, the RSA key and the CSR are made; each can
\* fail before anything is written.
PairBegin(ok) ==
  /\ pair_pc = "idle"
  /\ pair_runs < MaxPairRuns
  /\ pair_runs' = pair_runs + 1
  /\ IF ok THEN pair_pc' = "key" /\ pair_result' = "none" ELSE PairFails
  /\ UNCHANGED <<certs_dir, pair_root, pairConn, nonPairVars>>

\* "Save the private key now": std::fs::write(&key_path, ..)?; a write that
\* fails on opening the file leaves it as it was.
WriteKey(ok) ==
  /\ pair_pc = "key"
  /\ IF ok
     THEN /\ certs_dir' = fs_write(certs_dir, "ra-bridge.key",
                                   Content("ra-bridge.key", pair_runs))
          /\ pair_pc' = "connect"
          /\ UNCHANGED pair_result
     ELSE PairFails /\ UNCHANGED certs_dir
  /\ UNCHANGED <<pair_runs, pair_root, pairConn, nonPairVars>>

\* The TCP and TLS connection to the pairing port: a new connection, nothing
\* read from it or written to it yet.
PairConnect(ok) ==
  /\ pair_pc = "connect"
  /\ IF ok
     THEN /\ pair_pc' = "access"
          /\ pair_rx' = <<>>
          /\ pair_wire' = <<>>
          /\ UNCHANGED pair_result
     ELSE PairFails /\ UNCHANGED pairConn
  /\ UNCHANGED <<certs_dir, pair_runs, pair_root, nonPairVars>>

\* At most MaxPairLines lines without the permission are read in one wait.
MaxPairLines == 2

\* The lines the processor sends that do not grant access: a blank line, a
\* line that is no JSON, a status whose Permissions lack PhysicalAccess.
OtherLines == {"", "not json", "Permissions: [Public]"}

\* The wait taking any status line for the grant.
WaitAccess_AnyStatus(line) ==
  /\ pair_pc = "access"
  /\ CASE line \in {"Permissions: [PhysicalAccess]", "Permissions: [Public]"} ->
            /\ pair_rx' = Append(pair_rx, line)
            /\ pair_pc' = "csr"
            /\ UNCHANGED pair_result
       [] line \in OtherLines \ {"Permissions: [Public]"} ->
            /\ Len(pair_rx) < MaxPairLines
            /\ pair_rx' = Append(pair_rx, line)
            /\ UNCHANGED <<pair_pc, pair_result>>
       [] OTHER -> PairFails /\ UNCHANGED pair_rx
  /\ UNCHANGED <<certs_dir, pair_runs, pair_root, pair_wire, nonPairVars>>

\* One turn of the wait for PhysicalAccess, under timeout(BUTTON_TIMEOUT_SECS):
\* a line whose /Body/Status/Permissions holds PhysicalAccess ends the wait,
\* any other line is passed over, the end of the stream ("closed") and the
\* timeout end the run with an error.
WaitAccess(line) ==
  /\ pair_pc = "access"
  /\ CASE line = "Permissions: [PhysicalAccess]" ->
            /\ pair_rx' = Append(pair_rx, line)
            /\ pair_pc' = "csr"
            /\ UNCHANGED pair_result
       [] line \in OtherLines ->
            /\ Len(pair_rx) < MaxPairLines
            /\ pair_rx' = Append(pair_rx, line)
            /\ UNCHANGED <<pair_pc, pair_result>>
       [] OTHER -> PairFails /\ UNCHANGED pair_rx
  /\ UNCHANGED <<certs_dir, pair_runs, pair_root, pair_wire, nonPairVars>>

\* The CSR is written to the connection: writer.write_all(msg)?.
SendCsr(ok) ==
  /\ pair_pc = "csr"
  /\ IF ok
     THEN /\ pair_wire' = Append(pair_wire, "CSR")
          /\ pair_pc' = "response"
          /\ UNCHANGED pair_result
     ELSE PairFails /\ UNCHANGED pair_wire
  /\ UNCHANGED <<certs_dir, pair_runs, pair_root, pair_rx, nonPairVars>>

\* The signing response is read: with a Certificate and a RootCertificate,
\* with a Certificate only, without a Certificate, or not within 10 s.
ReadResponse(response) ==
  /\ pair_pc = "response"
  /\ IF response \in {"cert_and_root", "cert"}
     THEN /\ pair_pc' = "crt"
          /\ pair_root' = (response = "cert_and_root")
          /\ UNCHANGED pair_result
     ELSE PairFails /\ UNCHANGED pair_root
  /\ UNCHANGED <<certs_dir, pair_runs, pairConn, nonPairVars>>

\* "Save signed certificate": std::fs::write(&cert_path, signed_cert)?
WriteCert(ok) ==
  /\ pair_pc = "crt"
  /\ IF ok
     THEN /\ certs_dir' = fs_write(certs_dir, "ra-bridge.crt",
                                   Content("ra-bridge.crt", pair_runs))
          /\ pair_pc' = "ca"
          /\ UNCHANGED pair_result
     ELSE PairFails /\ UNCHANGED certs_dir
  /\ UNCHANGED <<pair_runs, pair_root, pairConn, nonPairVars>>

\* std::fs::write(&ca_path, &ca_pem)?: the root certificate of the response,
\* or LUTRON_ROOT_CA_PEM when it held none.
WriteCa(ok) ==
  /\ pair_pc = "ca"
  /\ IF ok
     THEN /\ certs_dir' = fs_write(certs_dir, "ca.crt",
                                   IF pair_root THEN Content("ca.crt", pair_runs)
                                   ELSE LUTRON_ROOT_CA_PEM)
          /\ pair_pc' = "verify"
          /\ UNCHANGED pair_result
     ELSE PairFails /\ UNCHANGED certs_dir
  /\ UNCHANGED <<pair_runs, pair_root, pairConn, nonPairVars>>

\* verify_pairing: its failure is logged, pair returns Ok(()) either way.
VerifyPairing(ok) ==
  /\ pair_pc = "verify"
  /\ pair_pc' = "idle"
  /\ pair_result' = "Ok"
  /\ UNCHANGED <<certs_dir, pair_runs, pair_root, pairConn, nonPairVars>>

\* Before the first run each credential file is absent or holds the content
\* of an earlier pairing.
InitPair ==
  /\ certs_dir \in { [n \in CredNames \cup CopyNames |->
                        IF n \in P THEN Some(Content(n, 0)) ELSE None] :
                     P \in SUBSET CredNames }
  /\ pair_pc = "idle"
  /\ pair_runs = 0
  /\ pair_root = FALSE
  /\ pair_result = "none"
  /\ pair_rx = <<>>
  /\ pair_wire = <<>>
  /\ IdleBridge
  /\ IdleRun
  /\ IdleLife
  /\ IdleCfg
  /\ IdleTelnet
  /\ IdlePure

NextPair ==
  \/ \E ok \in BOOLEAN : PairBegin(ok)
  \/ \E ok \in BOOLEAN : WriteKey(ok)
  \/ \E ok \in BOOLEAN : PairConnect(ok)
  \/ \E line \in {"Permissions: [PhysicalAccess]", "closed", "timeout"} \cup OtherLines :
       WaitAccess(line)
  \/ \E ok \in BOOLEAN : SendCsr(ok)
  \/ \E response \in {"cert_and_root", "cert", "no_cert", "timeout"} :
       ReadResponse(response)
  \/ \E ok \in BOOLEAN : WriteCert(ok)
  \/ \E ok \in BOOLEAN : WriteCa(ok)
  \/ \E ok \in BOOLEAN : VerifyPairing(ok)

SpecPair == InitPair /\ [][NextPair]_vars

\* C20: whenever a pairing run changes the content of the private key, the
\* signed certificate or the CA certificate, the content the file held before
\* is held by another file of the directory afterwards.
C20_PriorContentBackedUp ==
  [][\A n \in CredNames :
       (IsSome(certs_dir[n]) /\ certs_dir'[n] # certs_dir[n]) =>
         \E m \in (CredNames \cup CopyNames) \ {n} : certs_dir'[m] = certs_dir[n]]_vars

\* ---------------------------------------------------------------------------
\* C21  The CSR follows the physical-access grant.

\* The connection of the run carried the CSR.
CsrSent == \E i \in 1..Len(pair_wire) : pair_wire[i] = "CSR"

\* A status line with the PhysicalAccess permission was read in the run.
AccessReceived ==
  \E i \in 1..Len(pair_rx) : pair_rx[i] = "Permissions: [PhysicalAccess]"

\* The wait for the button ends the run.
WaitEndsRun == pair_pc = "access" /\ pair_pc' = "idle"

\* C21: in a pairing run the CSR is written to the connection only after a
\* status line with the PhysicalAccess permission was read from it; a wait
\* that ends without that line (timeout, or the stream closed) ends the run
\* with a reported error, with no CSR written and with the certificate and
\* the CA file as they were; the certificate and the CA file are written
\* only in a run whose CSR was sent.
C21_CsrOnlyAfterAccess ==
  /\ [](CsrSent => AccessReceived)
  /\ [][WaitEndsRun =>
          /\ pair_result' = "Err"
          /\ ~CsrSent'
          /\ certs_dir'["ra-bridge.crt"] = certs_dir["ra-bridge.crt"]
          /\ certs_dir'["ca.crt"] = certs_dir["ca.crt"]]_vars
  /\ [][(\/ certs_dir'["ra-bridge.crt"] # certs_dir["ra-bridge.crt"]
         \/ certs_dir'["ca.crt"] # certs_dir["ca.crt"])
        => CsrSent /\ AccessReceived]_vars

\* A run read lines without the grant and ended in an error with nothing
\* written to the connection and no certificate on disk.
C21_Witness ==
  /\ pair_pc = "idle"
  /\ pair_result = "Err"
  /\ pair_rx # <<>>
  /\ ~AccessReceived
  /\ pair_wire = <<>>
  /\ IsSome(certs_dir["ra-bridge.key"])
  /\ ~IsSome(certs_dir["ra-bridge.crt"])
  /\ ~IsSome(certs_dir["ca.crt"])

\* ---------------------------------------------------------------------------
\* C22  A line that is no command leaves the connection open.

\* What the command loop of a connection read is no command.
NoCommand(line) == "error" \in DOMAIN line \/ ~IsSome(parse_command(line))

\* C22: when the command loop of an authenticated connection reads a line that
\* does not parse as a command, the connection stays authenticated, no command
\* is sent on cmd_tx and nothing is written to the client; and on every
\* authenticated connection a valid line is parsed and sent on cmd_tx.
C22_UnparsedLineKeepsConnection ==
  /\ [][\A c \in Clients, line \in Reads :
          (ClientLine(c, line) /\ NoCommand(line)) =>
            /\ t_state'[c] = "Authenticated"
            /\ t_cmds' = t_cmds
            /\ t_out' = t_out]_vars
  /\ [](\A c \in Clients : \A line \in CommandLines :
          (t_state[c] = "Authenticated" /\ ~NoCommand(line)) =>
            ENABLED (ClientLine(c, line) /\ t_cmds'[c] = parse_command(line)))

(***************************************************************************)
(* The read arm of the clients in detail (leap_client.rs connect_and_run;  *)
(* savant_client.rs connect_and_run, handle_savant_message,                *)
(* parse_state_body, emit_if_tracked)                                      *)
(***************************************************************************)
\* Reads stop once MaxInbound events were published.
MaxInbound == 1

\* The zone lists a Savant client is started with.
InboundZoneLists ==
  { <<TrackedZone(1, <<"0", "0", "1">>, 0)>>,
    <<TrackedZone(1, <<"0", "0", "1">>, 0), TrackedZone(2, <<"0", "0", "2">>, 1)>> }

\* str::split(sep): the pieces of a text between the occurrences of sep.
RECURSIVE split(_, _)
split(text, sep) ==
  IF \E i \in 1..Len(text) : text[i] = sep
  THEN LET i == CHOOSE k \in 1..Len(text) :
                  text[k] = sep /\ \A j \in 1..(k - 1) : text[j] # sep
       IN <<SubSeq(text, 1, i - 1)>> \o split(SubSeq(text, i + 1, Len(text)), sep)
  ELSE <<text>>

\* value_str.replace('%', "")
RemovePercent(text) == SelectSeq(text, LAMBDA ch : ch # "%")

\* level < 0.0 (false of -0.0 and of NaN).
BelowZero(level) ==
  \/ level.class = "finite" /\ level.neg /\ level.mant > 0
  \/ level.class = "inf" /\ level.neg

\* SavantEvent::LoadLevel
LoadLevel(address, load_offset, level) ==
  [address |-> address, load_offset |-> load_offset, level |-> level]

\* emit_if_tracked that sends whatever it is given.
emit_if_tracked_Any(address, load_offset, level, zones) ==
  <<LoadLevel(address, load_offset, level)>>

\* emit_if_tracked: what it sends on event_tx, one event if a zone of the list
\* has this address and this load offset, nothing otherwise.
emit_if_tracked(address, load_offset, level, zones) ==
  IF \E i \in 1..Len(zones) :
       zones[i].address = address /\ zones[i].load_offset = load_offset
  THEN <<LoadLevel(address, load_offset, level)>>
  ELSE <<>>

\* The loop of parse_state_body over value_str.split(',').enumerate(), from
\* the slot at position i on: a slot that parses and is not below zero goes to
\* emit_if_tracked with its index as the load offset.
RECURSIVE SlotEvents(_, _, _, _)
SlotEvents(slots, i, address, zones) ==
  IF i > Len(slots) THEN <<>>
  ELSE LET level == parse_f64(Trim(slots[i])) IN
       (IF IsSome(level) /\ ~BelowZero(Unwrap(level))
        THEN emit_if_tracked(address, i - 1, Unwrap(level), zones)
        ELSE <<>>)
       \o SlotEvents(slots, i + 1, address, zones)

\* A "state" string: its prefix ("load.", "module." or neither) and the rest.
StateStr(prefix, rest) == [prefix |-> prefix, hex_key |-> rest]

\* A URI: "state/module/<address>/get", or a name without an address.
Uri(name, address) == [name |-> name, address |-> address]

\* One entry of "messages": its "state" and its "value" (None: no string).
Body(state, value) == [state |-> state, value |-> value]

\* What parse_state_body sends on event_tx for one body.
StateBodyEvents(body, uri, zones) ==
  IF body.state.prefix = "load."
  THEN LET key == parse_state_body(body.state) IN
       IF ~IsSome(key) \/ ~IsSome(body.value) THEN <<>>
       ELSE LET numeric   == RemovePercent(Unwrap(body.value))
                level_str == split(numeric, ".")[1]
                level     == parse_f64(Trim(level_str))
            IN IF IsSome(level)
               THEN emit_if_tracked(Unwrap(key)[1], Unwrap(key)[2], Unwrap(level), zones)
               ELSE <<>>
  ELSE LET address == IF body.state.prefix = "module." THEN Some(body.state.hex_key)
                      ELSE IF uri.name = "state/module/" THEN Some(uri.address)
                      ELSE None
       IN IF ~IsSome(address) \/ ~IsSome(body.value) THEN <<>>
          ELSE SlotEvents(split(Unwrap(body.value), ","), 1, Unwrap(address), zones)

\* The bodies of "messages", in order.
RECURSIVE BodiesEvents(_, _, _)
BodiesEvents(bodies, uri, zones) ==
  IF bodies = <<>> THEN <<>>
  ELSE StateBodyEvents(Head(bodies), uri, zones) \o BodiesEvents(Tail(bodies), uri, zones)

\* handle_savant_message: what it sends on event_tx for a text frame.  A text
\* that is no JSON, a messageReject and a URI that is no state URI send nothing.
handle_savant_message(text, zones) ==
  IF ~text.json THEN <<>>
  ELSE IF text.uri.name \in {"state/set", "state/update", "state/module/"}
  THEN BodiesEvents(text.messages, text.uri, zones)
  ELSE <<>>

\* A text frame of the host: JSON with a URI and messages, or no JSON.
SavantText(uri, messages) == [json |-> TRUE, uri |-> uri, messages |-> messages]

NotJson == [json |-> FALSE, uri |-> Uri("", <<>>), messages |-> <<>>]

\* The "value" strings of the bodies: lists of slots, and levels of a set echo.
ListValues ==
  { Some(<<"5", "0", ",", "-", "1">>), Some(<<"-", "1", ",", " ", "7">>),
    Some(<<"x", ",", "5", "0">>), None }

EchoValues == { Some(<<"1", "0", "0", "%", ".", "0">>), Some(<<"-", "1", "%", ".", "0">>) }

\* The bodies the host sends: set echoes of the loads (001, 0), (002, 1) and
\* (003, 0), and the lists of the modules 002 and 003.
SavantBodies ==
  { Body(StateStr("load.", key), value) :
      key \in {<<"1", "0", "0", "0", "0">>, <<"2", "0", "0", "0", "1">>,
               <<"3", "0", "0", "0", "0">>, <<"x">>},
      value \in EchoValues }
  \cup
  { Body(StateStr("module.", address), value) :
      address \in {<<"0", "0", "2">>, <<"0", "0", "3">>},
      value \in ListValues }
  \cup
  { Body(StateStr("", <<>>), value) : value \in ListValues }

SavantUris ==
  { Uri("state/set", <<>>), Uri("messageReject", <<>>),
    Uri("session/info", <<>>), Uri("state/module/", <<"0", "0", "2">>) }

\* What a read of the connection yields: a text (a line of the processor, a
\* text frame of the host), an error for bytes that are no message ("invalid":
\* a line that is no UTF-8 text, a frame that breaks the WebSocket protocol),
\* an error of the transport ("failed"), the end of the connection, or
\* (Savant) a frame of another kind.
Read(kind, text) == [kind |-> kind, text |-> text]

\* A line of the processor: blank, an event (JSON of a LeapEvent), or a line
\* that serde_json does not parse into a LeapEvent.
LeapLines ==
  { [json |-> "blank", event |-> None], [json |-> "malformed", event |-> None] }
  \cup { [json |-> "event", event |-> Some(e)] : e \in BackendEvents("leap") }

Inbounds(b) ==
  { Read("invalid", None), Read("failed", None), Read("closed", None) }
  \cup
  ( IF b = "leap" THEN { Read("text", Some(l)) : l \in LeapLines }
    ELSE { Read("other", None), Read("text", Some(NotJson)) }
         \cup { Read("text", Some(SavantText(uri, <<body>>))) :
                  uri \in SavantUris, body \in SavantBodies } )

\* What the read arm sends on event_tx for a text.
ReadEvents(b, text, zones) ==
  IF b = "leap"
  THEN (IF text.json = "event" THEN <<Unwrap(text.event)>> ELSE <<>>)
  ELSE handle_savant_message(text, zones)

\* The read arm of the select loop.  LEAP: `result?` on a failed read (a line
\* that is no UTF-8 text among them), Err on the end of the stream, a blank
\* line passed over, a line that parses sent on event_tx, any other line
\* logged.  Savant: a text frame handed to handle_savant_message, Err on a
\* close frame, the end of the stream and a failed read, other frames ignored.
Inbound(read) ==
  /\ run_pc = "loop"
  /\ Len(run_events) < MaxInbound
  /\ IF read.kind \in {"invalid", "failed", "closed"}
     THEN RunErr /\ UNCHANGED run_events
     ELSE /\ run_events' =
               IF read.kind = "text"
               THEN run_events \o ReadEvents(run_backend, Unwrap(read.text), run_zones)
               ELSE run_events
          /\ UNCHANGED <<run_backend, run_pc, backoff, sleep_secs>>
  /\ UNCHANGED <<run_queue, runWire, run_zones, nonRunVars>>

\* A client task with the zones it tracks, before its first connection.
InitInbound ==
  /\ run_backend \in Backends
  /\ run_pc = "connect"
  /\ backoff = 1
  /\ sleep_secs = 0
  /\ run_queue = <<>>
  /\ run_enq = <<>>
  /\ run_wire = <<>>
  /\ run_rx = 0
  /\ run_zones \in (IF run_backend = "savant" THEN InboundZoneLists ELSE {<<>>})
  /\ run_events = <<>>
  /\ IdleBridge
  /\ IdleLife
  /\ IdleCfg
  /\ IdleTelnet
  /\ IdleAux

NextInbound ==
  \/ RunWake
  \/ RunConnectOk
  \/ \E ok \in BOOLEAN : RunRecognized(ok)
  \/ \E read \in Inbounds(run_backend) : Inbound(read)

SpecInbound == InitInbound /\ [][NextInbound]_vars

\* ---------------------------------------------------------------------------
\* C23  A malformed inbound message is passed over.

\* The read is of a message that is not one of the protocol: a text that does
\* not parse, or bytes the read fails on (a line that is no UTF-8 text, a
\* frame that breaks the WebSocket protocol).
Malformed(b, read) ==
  \/ read.kind = "invalid"
  \/ /\ read.kind = "text"
     /\ IF b = "leap" THEN Unwrap(read.text).json = "malformed"
        ELSE ~Unwrap(read.text).json

\* C23: a malformed inbound message on an established connection of either
\* client is passed over: the connection stays in its select loop, no sleep
\* and no reconnect follows, the backoff delay is as before and nothing is
\* published for it; and the connection goes on to publish the well-formed
\* events it reads.
C23_MalformedMessageSkipped ==
  /\ [][\A read \in Inbounds(run_backend) :
          (Inbound(read) /\ Malformed(run_backend, read)) =>
            /\ run_pc' = "loop"
            /\ backoff' = backoff
            /\ sleep_secs' = sleep_secs
            /\ run_events' = run_events]_vars
  /\ []((run_backend = "leap" /\ run_pc = "loop" /\ Len(run_events) < MaxInbound) =>
          \A e \in BackendEvents("leap") :
            ENABLED (/\ Inbound(Read("text", Some([json |-> "event", event |-> Some(e)])))
                     /\ run_events' = Append(run_events, e)))

\* ---------------------------------------------------------------------------
\* C24  Savant events are published for tracked loads only.

\* A zone of the list has this address and this load offset.
Tracked(zones, address, load_offset) ==
  \E i \in 1..Len(zones) :
    zones[i].address = address /\ zones[i].load_offset = load_offset

\* Every body of the text is a list of slots (no set echo).
ListText(text) ==
  text.json /\ \A i \in 1..Len(text.messages) : text.messages[i].state.prefix # "load."

\* What this step added to run_events.
NewEvents == SubSeq(run_events', Len(run_events) + 1, Len(run_events'))

\* C24: every event the Savant client sends on its event_tx carries an
\* (address, load offset) pair of a zone of its zone list, so that telemetry
\* of any other pair gives the forwarder nothing to broadcast or to cache; and
\* a message of lists publishes nothing for a slot below zero: the events it
\* adds have levels that are not below zero.
C24_OnlyTrackedLoadsPublished ==
  /\ [](run_backend = "savant" =>
          \A i \in 1..Len(run_events) :
            Tracked(run_zones, run_events[i].address, run_events[i].load_offset))
  /\ [][\A read \in Inbounds("savant") :
          (/\ run_backend = "savant"
           /\ read.kind = "text"
           /\ ListText(Unwrap(read.text))
           /\ Inbound(read)) =>
            \A i \in 1..Len(NewEvents) : ~BelowZero(NewEvents[i].level)]_vars

\* The Savant client published the load (002, 1) at 7 from the list of module
\* 002 whose slot 0 is -1: nothing was published for slot 0.
C24_Witness ==
  /\ run_backend = "savant"
  /\ run_pc = "loop"
  /\ \E i \in 1..Len(run_events) :
       run_events[i] = LoadLevel(<<"0", "0", "2">>, 1, Whole(7))
  /\ \A i \in 1..Len(run_events) : run_events[i].load_offset # 0

\* ---------------------------------------------------------------------------
\* C25  A zone command that is not enqueued is logged.

\* C25: when the routing loop takes a command with a zone id and enqueues no
\* request for it (no map holds the id, the translator gives nothing, or the
\* owning backend has no request queue because its client was not started),
\* the step that drops the command logs a line; and a send that fails logs a
\* warning.
C25_DroppedCommandLogged ==
  /\ [][(OrchRecv /\ IsSome(CommandId(Head(ra2_cmd))) /\ orch_pc' = "select")
        => orch_log' # <<>>]_vars
  /\ [][(\E b \in Backends : OrchSend(b) /\ req_ch' = req_ch)
        => \E i \in 1..Len(orch_log') : IsWarn(orch_log'[i])]_vars

\* ---------------------------------------------------------------------------
\* C26  The levels sent to the backends are percentages.

\* An accepted "#OUTPUT" line was translated for both backends.
SendDone == pure_fn = "send" /\ IsSome(pure_out) /\ IsSome(Unwrap(pure_out))

\* The Level of the LEAP body, the value of the Savant message.
SentLeap == Unwrap(Unwrap(pure_out)).leap.Level

SentSavant == Unwrap(Unwrap(pure_out)).savant

\* 0 <= level <= 100
IsPercent(level) ==
  /\ level.class = "finite"
  /\ level.mant = 0 \/ ~level.neg
  /\ level.mant <= 100 * Pow10(level.scale)

\* C26: for every "#OUTPUT" line the parser accepts, the Level of the LEAP
\* GoToLevel body is a number from 0 to 100, and the Savant value is a whole
\* number from 0 to 100 followed by "%.0".
C26_SentLevelIsPercent ==
  SendDone =>
    /\ IsPercent(SentLeap)
    /\ \E n \in 0..100 : SentSavant = FormatDec(n) \o <<"%", ".", "0">>

(***************************************************************************)
(* A configuration update under a running bridge (routes.rs put_config,    *)
(* bridge.rs start and its routing loop)                                   *)
(***************************************************************************)
InitReload == InitTelnet

NextReload ==
  \/ \E c \in TelnetConfigs : PutConfig(c)
  \/ \E cmd \in Ra2Commands : TelnetCommand(cmd)
  \/ OrchRecv
  \/ \E b \in Backends : OrchSend(b)

SpecReload == InitReload /\ [][NextReload]_vars

\* ---------------------------------------------------------------------------
\* C27  Commands are routed by the maps of the live configuration.

\* The routing decision with maps built from the live configuration.
RouteByLiveConfig(cmd) ==
  Route(cmd, IdMap_from_zones(Unwrap(config).zones),
        SavantIdMap_from_zones(Unwrap(config).savant_zones), req_tx)

\* C27: every command the routing loop takes is routed with identifier maps
\* built from the live configuration, also after put_config has replaced it:
\* the request made and the backend chosen are those the maps of the live
\* configuration give; and the two maps the loop looks into are each the map
\* of one whole zone list.
C27_RoutedByLiveConfig ==
  /\ [][OrchRecv =>
          /\ orch_req' = RouteByLiveConfig(Head(ra2_cmd)).req
          /\ orch_pc' = (IF RouteByLiveConfig(Head(ra2_cmd)).target = "none"
                         THEN "select" ELSE RouteByLiveConfig(Head(ra2_cmd)).target)]_vars
  /\ [](\E c \in Configs :
          /\ leap_id_map = IdMap_from_zones(c.zones)
          /\ savant_id_map = SavantIdMap_from_zones(c.savant_zones))

\* ---------------------------------------------------------------------------
\* C28  The identifier maps are bijections.

\* The maps of a configuration were built.
MapsBuilt == pure_fn = "maps" /\ IsSome(pure_out)

BuiltLeap == Unwrap(pure_out).leap

BuiltSavant == Unwrap(pure_out).savant

\* No two entries of a list are equal.
Distinct(list) == \A i, j \in 1..Len(list) : list[i] = list[j] => i = j

\* C28: in the maps built from a configuration, the reverse lookup of the
\* forward lookup of every mapped zone id is that id, and the forward lookup
\* of the reverse lookup of every mapped backend key is that key; and maps
\* are built only from lists without a repeated zone id and without a
\* repeated backend key.
C28_MapsMutuallyInverse ==
  MapsBuilt =>
    /\ \A id \in DOMAIN BuiltLeap.ra2_to_leap :
         IdMap_leap_to_ra2(BuiltLeap, BuiltLeap.ra2_to_leap[id]) = Some(id)
    /\ \A href \in DOMAIN BuiltLeap.leap_to_ra2 :
         IdMap_ra2_to_leap(BuiltLeap, BuiltLeap.leap_to_ra2[href]) = Some(href)
    /\ \A id \in DOMAIN BuiltSavant.ra2_to_savant :
         SavantIdMap_savant_to_ra2(BuiltSavant, BuiltSavant.ra2_to_savant[id][1],
                                   BuiltSavant.ra2_to_savant[id][2]) = Some(id)
    /\ \A key \in DOMAIN BuiltSavant.savant_to_ra2 :
         SavantIdMap_ra2_to_savant(BuiltSavant, BuiltSavant.savant_to_ra2[key]) = Some(key)
    /\ Distinct(ra2_ids(pure_in.zones) \o ra2_ids(pure_in.savant_zones))
    /\ Distinct([i \in 1..Len(pure_in.zones) |-> pure_in.zones[i].leap_href])
    /\ Distinct([i \in 1..Len(pure_in.savant_zones) |->
                   <<pure_in.savant_zones[i].address, pure_in.savant_zones[i].load_offset>>])

\* ---------------------------------------------------------------------------
\* C29  The subscribe request is the first write of a LEAP connection.

\* C29: on every LEAP connection, the first one and every reconnection, the
\* first message written is the SubscribeRequest for /zone/status, and it is
\* written once: every queued request and every keepalive ping written on
\* the connection comes after it; a connection in its select loop has
\* written it.
C29_SubscribeWrittenFirst ==
  run_backend = "leap" =>
    /\ \A i \in 1..Len(run_wire) : run_wire[i].kind = "session" <=> i = 1
    /\ run_pc = "loop" => run_wire # <<>>

\* A LEAP client on a reconnection (the delay has doubled) has written the
\* subscribe request, then a queued request and a ping.
C29_Witness ==
  /\ run_backend = "leap"
  /\ run_pc = "loop"
  /\ backoff > 1
  /\ Len(run_wire) >= 3
  /\ run_wire[1].kind = "session"
  /\ \E i, j \in 2..Len(run_wire) : run_wire[i].kind = "req" /\ run_wire[j].kind = "tick"

\* ---------------------------------------------------------------------------
\* C30  The Savant handshake comes first.

\* The state requests written on the connection, in order.
StatesWritten == SelectSeq(run_wire, LAMBDA w : w.kind = "state")

\* The module addresses of the zones of the client.
ModuleAddresses == { run_zones[i].address : i \in 1..Len(run_zones) }

\* C30: on every Savant connection session/devicePresent is the first message
\* written and is written once; while the client waits for
\* session/deviceRecognized nothing else is written; once it is recognized
\* the client writes one state request for every module address of its zones,
\* no address twice, and every queued request and every poll written on the
\* connection comes after all of them.
C30_HandshakeBeforeRequests ==
  run_backend = "savant" =>
    /\ \A i \in 1..Len(run_wire) : run_wire[i].kind = "session" <=> i = 1
    /\ run_pc = "handshake" => run_wire = <<Written("session", 0, 0)>>
    /\ \A a \in ModuleAddresses :
         Cardinality({ k \in 1..Len(StatesWritten) :
                         run_zones[StatesWritten[k].req].address = a }) <= 1
    /\ (run_pc = "loop" \/ \E i \in 1..Len(run_wire) : run_wire[i].kind \in {"req", "tick"})
       => /\ Len(StatesWritten) = Cardinality(ModuleAddresses)
          /\ \A i \in 2..(1 + Cardinality(ModuleAddresses)) : run_wire[i].kind = "state"

\* A Savant client with three zones on two modules is in its select loop: it
\* wrote devicePresent, the state requests of the two modules, then a queued
\* request and a poll.
C30_Witness ==
  /\ run_backend = "savant"
  /\ run_pc = "loop"
  /\ Len(run_zones) = 3
  /\ Len(run_wire) >= 5
  /\ SubSeq(run_wire, 1, 3) =
       <<Written("session", 0, 0), Written("state", 0, 1), Written("state", 0, 2)>>
  /\ \E i, j \in 4..Len(run_wire) : run_wire[i].kind = "req" /\ run_wire[j].kind = "tick"

(***************************************************************************)
(* The client task under the tokio scheduler                               *)
(***************************************************************************)
\* A sleep ends; a connection attempt ends, in success or in an error; a
\* queued request is taken by the select loop.  Nothing is assumed of the
\* backend: what it sends, and when, is its own choice.
RunFairness ==
  /\ WF_vars(RunWake)
  /\ WF_vars(RunConnectOk \/ RunConnectFail)
  /\ WF_vars(\E ok \in BOOLEAN : RunSendReq(ok))

FairSpecClient == SpecClient /\ RunFairness

\* ---------------------------------------------------------------------------
\* C31  The wait for session/deviceRecognized is bounded.

\* C31: a Savant client that waits for session/deviceRecognized leaves the
\* wait: it is recognized, or the handshake fails (by a timeout, if the host
\* sends nothing) and the client sleeps its backoff delay before it
\* reconnects.
C31_HandshakeWaitEnds ==
  (run_backend = "savant" /\ run_pc = "handshake") ~> (run_pc \in {"loop", "sleep"})

\* ---------------------------------------------------------------------------
\* C32  A keepalive ping is written on an idle connection only.

\* C32: on a LEAP connection a keepalive ping is written at a tick only if
\* nothing else happened on the connection since the tick before; of the
\* writes, this says that no queued request is written between the tick before
\* (or the start of the loop) and the ping: the message written just before a
\* ping is the subscribe request or another ping.
C32_PingOnlyWhenIdle ==
  run_backend = "leap" =>
    \A i \in 2..Len(run_wire) :
      run_wire[i].kind = "tick" => run_wire[i - 1].kind \in {"session", "tick"}

\* ---------------------------------------------------------------------------
\* C33  A request queue whose receiver is gone.

\* connect_and_run of the LEAP client, after the TCP connection: a host that
\* resolves but is neither a DNS name nor an IP literal for rustls (a scoped
\* IPv6 address, "127.1") makes .expect("Invalid host address") panic; the
\* client task unwinds and drops req_rx.
ClientPanic ==
  /\ ClientStep("leap", "connecting", "ended")
  /\ UNCHANGED <<startVars, bridge_status, state_tx, ra2_cmd, req_ch,
                 shutdown_ch, orchVars, zone_levels, otherVars>>

\* The bridge whose LEAP host is such a name: an attempt of the LEAP client
\* fails at the TCP connection or panics after it, and never reaches the
\* select loop; the Savant client runs as in Next.
NextDrop ==
  \/ BridgeStart
  \/ BridgeStop
  \/ \E cmd \in Ra2Commands : TelnetCommand(cmd)
  \/ OrchRecv
  \/ \E b \in Backends : OrchSend(b)
  \/ OrchShutdown
  \/ ClientPanic
  \/ ClientConnectFail("leap")
  \/ ClientWake("leap")
  \/ ClientConnectOk("savant")
  \/ ClientConnectFail("savant")
  \/ ClientWake("savant")
  \/ ClientConnLost("savant")
  \/ \E ok \in BOOLEAN : ClientSendReq("savant", ok)

SpecDrop == Init /\ [][NextDrop]_vars

SendFailed == Warn("Failed to send request", None)

\* The routing loop is where it was after the send that failed before: at its
\* select!, with the command queue, the other request queue, the senders and
\* the status untouched, and the failure as the last line of its log.
FailureHandled(b) ==
  /\ orch_pc = b /\ ReceiverDropped(b)
  /\ orch_pc' = "select"
  /\ orch_log' # <<>> /\ orch_log'[Len(orch_log')] = SendFailed
  /\ UNCHANGED <<ra2_cmd, req_ch, req_tx, state_tx, bridge_status, shutdown_ch,
                 telnetVars>>

SharedConfig ==
  [zones        |-> ZoneList(<<1>>),
   savant       |-> TRUE,
   savant_zones |-> SavantZoneList(<<MaxZone + 1>>)]

InitShared ==
  /\ config = Some(SharedConfig)
  /\ NotStarted
  /\ IdleRun /\ IdleLife /\ IdleCfg /\ IdleTelnet /\ IdleAux

SpecShared == InitShared /\ [][Next]_vars

FairSpecShared == SpecShared /\ Fairness

\* A command that the routing loop will send to backend b waits in the
\* command queue.
Waiting(b) ==
  \E i \in DOMAIN ra2_cmd :
    Route(ra2_cmd[i], leap_id_map, savant_id_map, req_tx).target = b

\* C34: a command of a zone that backend b owns is taken up and sent to the
\* queue of b (or the loop is stopped), whatever the state of the other
\* backend's queue and client.
C34_OtherBackendNotBlocked ==
  \A b \in Backends :
    (orch_pc \in {"select"} \cup Backends /\ Waiting(b))
      ~> (orch_pc = b \/ orch_pc = "stopped")

\* ---------------------------------------------------------------------------
\* C35  No request is lost across a reconnect.

\* C35: no enqueued request is lost: every request ever put on the request
\* queue of the client task is still in the queue, waiting for a connection,
\* or has been written to the backend.
C35_NoRequestLost ==
  \A i \in 1..Len(run_enq) :
    LET w == Written("req", i, run_enq[i]) IN
    \/ \E j \in DOMAIN run_queue : run_queue[j] = w
    \/ \E j \in DOMAIN run_wire : run_wire[j] = w

\* ---------------------------------------------------------------------------
\* C36  Events published before a client has authenticated.

\* Client c completes the login exchange in this step.
Authenticates(c) ==
  t_state[c] # "Authenticated" /\ t_state'[c] = "Authenticated"

\* C36: no event published before a client completed authentication is
\* written to it: when the login exchange of a client ends, the receiver of
\* its event writer, which writes every event the receiver yields, holds no
\* event.
C36_NoEventFromBeforeLogin ==
  [][\A c \in Clients :
       Authenticates(c) => t_next'[c] = Len(ra2_events') + 1]_vars

\* ---------------------------------------------------------------------------
\* C37  The Zone Level Cache after a site activation.

\* C37: after a site activation has cleared the Zone Level Cache, every entry
\* of the cache was written on behalf of the newly active configuration; in
\* particular, after the activation of a site that has no configuration (no
\* bridge can be started for it) the cache stays empty.
C37_CacheOfActiveSiteOnly ==
  config = None => zone_levels = EmptyMap

\* ---------------------------------------------------------------------------
\* C38  Concurrent start and restart requests.

\* C38: a start or restart request starts a routing loop only while the bridge
\* is neither Starting nor Running: no step of bridge_start or bridge_restart
\* adds a bridge while the status is Starting or Running.
C38_NoStartWhileRunning ==
  [][(life_gen' # life_gen /\ life_web # "activate_sleep")
       => life_status \notin {"Running", "Starting"}]_vars

\* ---------------------------------------------------------------------------
\* C39  The stored pair after a pairing run that fails.

\* The private key and the certificate under the active names are the two
\* halves of one pair: both are there and were made by the same pairing.
MatchingPair ==
  /\ IsSome(certs_dir["ra-bridge.key"])
  /\ IsSome(certs_dir["ra-bridge.crt"])
  /\ Unwrap(certs_dir["ra-bridge.key"]).run = Unwrap(certs_dir["ra-bridge.crt"]).run

\* The latest run has ended in an error before it wrote a certificate, and
\* the run before it wrote the certificate stored: that run wrote its key
\* first, so key and certificate were a matching pair when the latest began.
FailedBeforeCert ==
  /\ pair_pc = "idle"
  /\ pair_result = "Err"
  /\ pair_runs >= 2
  /\ IsSome(certs_dir["ra-bridge.crt"])
  /\ Unwrap(certs_dir["ra-bridge.crt"]).run = pair_runs - 1

\* C39: when the stored key and certificate form a matching pair before a
\* pairing run and the run fails before it writes a certificate, they still
\* form a matching pair after it.
C39_FailedRunKeepsPair == FailedBeforeCert => MatchingPair

\* ---------------------------------------------------------------------------
\* C40  The blocking routing loop of bridge::run.

\* bridge::run has built the maps and the channels and has spawned the RA2
\* listener task and the clients; its loop is at its select!.
InitBlocking ==
  /\ entry_point = "run"
  /\ listener = "binding"
  /\ config \in { Some(c) : c \in TelnetConfigs }
  /\ started = FALSE
  /\ leap_id_map = IdMap_from_zones(Unwrap(config).zones)
  /\ savant_id_map = SavantIdMap_from_zones(Unwrap(config).savant_zones)
  /\ req_tx = [leap |-> has_leap(Unwrap(config)), savant |-> has_savant(Unwrap(config))]
  /\ state_tx = [leap |-> FALSE, savant |-> FALSE, shutdown |-> FALSE]
  /\ bridge_status = "Stopped"
  /\ ra2_cmd = <<>>
  /\ req_ch = [b \in Backends |-> <<>>]
  /\ shutdown_ch = 0
  /\ orch_pc = "select"
  /\ orch_cmd = None
  /\ orch_req = None
  /\ orch_log = <<>>
  /\ orch_enq = [b \in Backends |-> 0]
  /\ client_pc = [b \in Backends |-> IF req_tx[b] THEN "connecting" ELSE "none"]
  /\ zone_levels = EmptyMap
  /\ IdleRun /\ IdleLife /\ IdleCfg /\ NoClients /\ IdleAux

blockingOther ==
  <<entry_point, ra2_events, fwd_missed, connVars, bridgeVars, runVars, lifeVars,
    cfgVars, auxVars>>

\* telnet_server::run: TcpListener::bind(..).await?; a failure ends the task,
\* which drops its cmd_tx.
ListenerBind(ok) ==
  /\ listener = "binding"
  /\ listener' = IF ok THEN "listening" ELSE "ended"
  /\ UNCHANGED blockingOther

\* telnet_server::run: listener.accept().await? fails; the task ends.
ListenerAcceptFails ==
  /\ listener = "listening"
  /\ listener' = "ended"
  /\ UNCHANGED blockingOther

\* handle_client of connection c has not returned: it holds a clone of cmd_tx.
SenderHeld(c) ==
  t_state[c] \in {"AwaitingUsername", "AwaitingPassword", "Authenticated"}

\* Every sender of the command queue is dropped.
SendersDropped == listener = "ended" /\ \A c \in Clients : ~SenderHeld(c)

\* handle_client: cmd_tx.send(cmd).await of a parsed command of connection c.
BlockingCommand(c, cmd) ==
  /\ t_state[c] = "Authenticated"
  /\ orch_pc # "panicked"
  /\ Len(ra2_cmd) < QueueCap
  /\ ra2_cmd' = Append(ra2_cmd, cmd)
  /\ t_cmds' = [t_cmds EXCEPT ![c] = Some(cmd)]
  /\ UNCHANGED <<startVars, bridge_status, state_tx, req_ch, shutdown_ch,
                 orchVars, client_pc, zone_levels, runVars, lifeVars, cfgVars,
                 auxVars, entry_point, listener, ra2_events, fwd_missed,
                 t_state, t_user, t_pass, t_out, t_next, t_warn, t_seen>>

\* The select! of bridge::run (bridge.rs 328-365) has the one branch
\* `Some(cmd) = ra2_cmd_rx.recv()` and no else: recv() yields None once the
\* queue is empty and every sender is dropped, the pattern does not match, the
\* branch is disabled, and a select! whose branches are all disabled panics.
SelectPanics ==
  /\ orch_pc = "select"
  /\ ra2_cmd = <<>>
  /\ SendersDropped
  /\ orch_pc' = "panicked"
  /\ UNCHANGED <<startVars, bridge_status, state_tx, ra2_cmd, req_ch, shutdown_ch,
                 orch_cmd, orch_req, orch_log, orch_enq, client_pc, zone_levels,
                 otherVars>>

NextBlocking ==
  \/ \E ok \in BOOLEAN : ListenerBind(ok)
  \/ ListenerAcceptFails
  \/ \E c \in Clients : Accept(c)
  \/ \E c \in Clients, line \in UserLines : SubmitUsername(c, line)
  \/ \E c \in Clients, line \in PassLines : SubmitPassword(c, line)
  \/ \E c \in Clients : ClientClose(c)
  \/ \E c \in Clients, cmd \in Ra2Commands : BlockingCommand(c, cmd)
  \/ OrchRecv
  \/ \E b \in Backends : OrchSend(b)
  \/ \E b \in Backends : ClientConnectOk(b)
  \/ \E b \in Backends : ClientConnectFail(b)
  \/ \E b \in Backends : ClientWake(b)
  \/ \E b \in Backends : ClientConnLost(b)
  \/ \E b \in Backends, ok \in BOOLEAN : ClientSendReq(b, ok)
  \/ SelectPanics

SpecBlocking == InitBlocking /\ [][NextBlocking]_vars

\* C40: the loop of bridge::run never ends and never panics, whatever the
\* listener task and the connections do.
C40_LoopNeverPanics == orch_pc = "select" \/ orch_pc \in Backends

====
